---------------------------- MODULE Spec2Model ----------------------------
(***************************************************************************)
(* finfeed: the statement pipeline (consolidate_csv.py,                    *)
(* consolidate_conta_corrente.py, build_dashboard.py, categories.py) and   *)
(* the recomputation the generated page runs after every override edit.   *)
(*                                                                         *)
(* Representation.                                                         *)
(*  - A text (title, description, entity) is a sequence of tokens; the     *)
(*    Python/JS string is their concatenation.  " " is one blank, "-" a    *)
(*    hyphen, every other token a word of Words.  "***" stands for the     *)
(*    three bullets U+2022 of a masked CPF.  No keyword of the source      *)
(*    straddles two tokens and no token is a prefix of another, so         *)
(*    substring tests are decided token by token and string order is the   *)
(*    lexicographic order of the tokens' ranks.                            *)
(*  - Money is an integer: thousandths (mills) as parsed from a source     *)
(*    row, cents once round(x, 2) has been applied.  Sums of cents are     *)
(*    exact; a quotient is rounded as the language rounds the exact        *)
(*    quotient (Python round: half to even, JS Math.round: half up).  The  *)
(*    amounts that reach an aggregate in the statements below are          *)
(*    multiples of 0.04, so that the only quotients that are ties are      *)
(*    exact binary fractions, on which floating point and exact            *)
(*    arithmetic agree.                                                    *)
(*  - A date is a record [y, m, d]; date[:7] is the pair <<y, m>>.         *)
(***************************************************************************)
EXTENDS Integers, Sequences, FiniteSets

VARIABLES
    arg,                    \* the classifier call being made (SpecClassify)
    ret,                    \* its return value
    Nubank_csvs,            \* rows of assets/Nubank_*.csv, files in sorted order
    NU_csvs,                \* rows of assets/NU_26372425_*.csv
    OUT_CSV,                \* assets/consolidated_12m_expenses.csv
    OUT_JSON,               \* assets/consolidated_conta_corrente_2025.json
    OUT_HTML,               \* index.html: the payloads embedded in it
    PAYLOAD,                \* const PAYLOAD of the open page
    PAYLOAD_CONTA,          \* const PAYLOAD_CONTA of the open page
    overrides,              \* var overrides (credit card)
    overridesConta,         \* var overridesConta (checking account)
    filterCategoriesCartao, \* var filterCategoriesCartao
    filterCategoriesConta,  \* var filterCategoriesConta
    localStorage,           \* the browser's localStorage
    dom,                    \* what the page shows: the last rendered aggregates
    edits                   \* number of user edits made so far

files  == <<Nubank_csvs, NU_csvs, OUT_CSV, OUT_JSON, OUT_HTML>>
client == <<PAYLOAD, PAYLOAD_CONTA, overrides, overridesConta,
            filterCategoriesCartao, filterCategoriesConta, localStorage, dom, edits>>
vars   == <<arg, ret, files, client>>

----------------------------------------------------------------------------
(* Bounds of the model.                                                    *)

MaxWords == 2       \* tokens in a title or description given to a classifier
MaxRows == 2        \* rows in the statement files of one domain
MaxTitles == 3      \* rows in the statement files chosen for their totals
MaxEdits == 2       \* user edits on the open page
MaxDupes == 4       \* rows in the statement dedupe is applied to

----------------------------------------------------------------------------
(* Texts.                                                                  *)

\* str.lower() of one token
Lower(w) ==
    CASE w = "Mercado" -> "mercado"
      [] w = "Supermercado" -> "supermercado"
      [] w = "Juros de Rotativo" -> "juros de rotativo"
      [] w = "IOF de atraso" -> "iof de atraso"
      [] w = "Transferência Recebida" -> "transferência recebida"
      [] w = "Transferência recebida pelo Pix" -> "transferência recebida pelo pix"
      [] w = "Transferência enviada pelo Pix" -> "transferência enviada pelo pix"
      [] w = "Rodrigo Ribas" -> "rodrigo ribas"
      [] w = "NU PAGAMENTOS" -> "nu pagamentos"
      [] w = "Resgate RDB" -> "resgate rdb"
      [] w = "Aplicação RDB" -> "aplicação rdb"
      [] w = "Pagamento de fatura" -> "pagamento de fatura"
      [] w = "Receita Federal" -> "receita federal"
      [] w = "TELEFONICA" -> "telefonica"
      [] w = "Pagamento de boleto efetuado" -> "pagamento de boleto efetuado"
      [] w = "CONSORCIO" -> "consorcio"
      [] w = "Compra no débito" -> "compra no débito"
      [] w = "Edison" -> "edison"
      [] w = "JOAO" -> "joao"
      [] w = "Desconhecido" -> "desconhecido"
      [] w = "Outros" -> "outros"
      [] OTHER -> w

\* The keywords of the source that are substrings of the token w
KeywordsIn(w) ==
    CASE w = "Supermercado" -> {"mercado"}
      [] w = "academia" -> {"academia"}
      [] w = "aplicação rdb" -> {"aplicação rdb"}
      [] w = "barbearia" -> {"barbearia"}
      [] w = "bazar" -> {"bazar"}
      [] w = "compra no débito" -> {"compra no débito"}
      [] w = "consorcio" -> {"consorcio"}
      [] w = "edison" -> {"edison"}
      [] w = "estacionamentos" -> {"estacionamento", "estacionamentos"}
      [] w = "fornecedor" -> {"fornecedor"}
      [] w = "iof de atraso" -> {"iof de atraso"}
      [] w = "juros de rotativo" -> {"juros de rotativo"}
      [] w = "lanches" -> {"lanch", "lanches"}
      [] w = "mercado" -> {"mercado"}
      [] w = "netflix" -> {"netflix"}
      [] w = "nu pagamentos" -> {"nu pagamentos"}
      [] w = "nubank" -> {"nubank"}
      [] w = "padaria" -> {"padaria"}
      [] w = "pagamento de boleto efetuado" -> {"pagamento de boleto"}
      [] w = "pagamento de fatura" -> {"pagamento de fatura"}
      [] w = "pagseguro" -> {"pagseguro"}
      [] w = "panvel" -> {"panvel"}
      [] w = "pedágio" -> {"pedágio"}
      [] w = "posto" -> {"posto"}
      [] w = "receita federal" -> {"receita federal"}
      [] w = "rede farroupilha" -> {"rede farroupilha"}
      [] w = "resgate rdb" -> {"resgate rdb"}
      [] w = "restaurante" -> {"restaurante"}
      [] w = "rodrigo ribas" -> {"rodrigo ribas"}
      [] w = "supermercado" -> {"mercado", "supermerc"}
      [] w = "tel3 telecom" -> {"tel3", "tel3 telecom"}
      [] w = "telefonica" -> {"telefonica"}
      [] w = "transferência enviada pelo pix" -> {"transferência enviada pelo pix"}
      [] w = "transferência recebida" -> {"transferência recebida"}
      [] w = "transferência recebida pelo pix" -> {"transferência recebida", "transferência recebida pelo pix"}
      [] w = "uber" -> {"uber"}
      [] w = "***" -> {"***"}
      [] OTHER -> {}

\* Rank of a token in Python's string order (code points)
Ord(w) ==
    CASE w = " " -> 1
      [] w = "-" -> 2
      [] w = "99" -> 3
      [] w = "Aplicação RDB" -> 4
      [] w = "CONSORCIO" -> 5
      [] w = "Compra no débito" -> 6
      [] w = "Desconhecido" -> 7
      [] w = "Edison" -> 8
      [] w = "IOF de atraso" -> 9
      [] w = "JOAO" -> 10
      [] w = "Juros de Rotativo" -> 11
      [] w = "Mercado" -> 12
      [] w = "NU PAGAMENTOS" -> 13
      [] w = "Outros" -> 14
      [] w = "Pagamento de boleto efetuado" -> 15
      [] w = "Pagamento de fatura" -> 16
      [] w = "Receita Federal" -> 17
      [] w = "Resgate RDB" -> 18
      [] w = "Rodrigo Ribas" -> 19
      [] w = "Supermercado" -> 20
      [] w = "TELEFONICA" -> 21
      [] w = "Transferência Recebida" -> 22
      [] w = "Transferência enviada pelo Pix" -> 23
      [] w = "Transferência recebida pelo Pix" -> 24
      [] w = "academia" -> 25
      [] w = "barbearia" -> 26
      [] w = "bazar" -> 27
      [] w = "estacionamentos" -> 28
      [] w = "fornecedor" -> 29
      [] w = "lanches" -> 30
      [] w = "loja" -> 31
      [] w = "netflix" -> 32
      [] w = "nubank" -> 33
      [] w = "padaria" -> 34
      [] w = "pagseguro" -> 35
      [] w = "panvel" -> 36
      [] w = "pedágio" -> 37
      [] w = "posto" -> 38
      [] w = "rede farroupilha" -> 39
      [] w = "restaurante" -> 40
      [] w = "tel3 telecom" -> 41
      [] w = "uber" -> 42
      [] w = "***" -> 43
      [] OTHER -> 0


lower(t) == [i \in 1..Len(t) |-> Lower(t[i])]

\* k in t, for a keyword k of the source
In(k, t) == \E i \in 1..Len(t) : k \in KeywordsIn(t[i])

any(ks, t) == \E k \in ks : In(k, t)

\* All texts of at most n tokens over the words W
Texts(W, n) == UNION {[1..k -> W] : k \in 0..n}

----------------------------------------------------------------------------
(* categories.py                                                           *)

BLACKLIST ==
    {"xgrow", "saldo em rotativo", "saldo em atraso", "juros de dívida",
     "juros de divida", "multa de atraso", "juros do rotativo",
     "juros de rotativo", "iof rotativo", "iof de atraso"}

MASTER_CATEGORIES_DESPESA ==
    {"Transporte", "Lazer", "Financiamento e consórcio", "Educação",
     "Saneamento básico", "Outro centro de custo (trabalho)", "Manutenção",
     "Impostos e taxas", "Comunicação", "Despesas esporádicas", "Esporte",
     "Assinaturas", "Desenvolvimento pessoal", "Eventos", "Presentes",
     "Higiene", "Saúde", "Academia", "Pedágio",
     "Lanche padaria e outros alimentos", "Manutenção veicular",
     "Restaurante", "Combustível", "Mercado", "Açougue", "Fruteira",
     "Loja e Bazar", "Vestuário e higiene pessoal", "Manutenção residencial",
     "Educação e Desenvolvimento pessoal", "Vestuário", "Pagamento cartão",
     "Investimentos", "Boletos e outros", "Pagamento de Fornecedores",
     "Outros"}

MASTER_CATEGORIES_ENTRADA ==
    {"Salário / Transferência", "Recebimento de Clientes",
     "Investimentos (resgate)", "Outras entradas"}

MASTER_CATEGORIES == MASTER_CATEGORIES_ENTRADA \cup MASTER_CATEGORIES_DESPESA

\* The markers sought in the text as it is written
is_blacklisted_as_written(text) == any(BLACKLIST, text)

is_blacklisted(text) == any(BLACKLIST, lower(text))

----------------------------------------------------------------------------
(* build_dashboard.py: categorize                                          *)

\* The food rule with its second label cut short
RestauranteOrLancheShort(t) ==
    IF any({"restaurante", "pizzaria", "buffon", "hamburguer", "rancho",
            "cia do sabor"}, t)
    THEN "Restaurante"
    ELSE "Lanche"

\* The two returns of the food rule
RestauranteOrLanche(t) ==
    IF any({"restaurante", "pizzaria", "buffon", "hamburguer", "rancho",
            "cia do sabor"}, t)
    THEN "Restaurante"
    ELSE "Lanche padaria e outros alimentos"

\* The rules with the food rule tested first
categorize_food_first(title) ==
    LET t == lower(title) IN
    IF any({"ricky", "xis", "lanches", "restaurante", "pizzaria", "buffon",
            "padaria", "lanchonete", "hamburguer", "minhocaburger",
            "rancho", "a lenha", "cia do sabor", "cremolatto",
            "delivery"}, t)
        THEN RestauranteOrLanche(t)
    ELSE IF any({"supermerc", "mercado", "hortifruti", "mercearia", "atacad",
                 "fruteira", "carrefour"}, t) THEN "Mercado"
    ELSE IF any({"posto", "gasbom", "gasolina", "abastece"}, t) THEN "Combustível"
    ELSE IF any({"uber", "via sul", "concessionaria", "concessionária"}, t)
        THEN "Transporte"
    ELSE IF any({"pedágio", "estacionamento"}, t) THEN "Pedágio"
    ELSE IF any({"academia", "prime fit"}, t) THEN "Academia"
    ELSE IF any({"farmacia", "farmácia", "panvel", "sao joao", "são joão"}, t)
        THEN "Saúde"
    ELSE IF any({"google", "youtube", "netflix", "assinatura", "juliocesar",
                 "gemeascel", "conta vivo", "contavivo"}, t) THEN "Assinaturas"
    ELSE IF any({"barbeiro", "xbeleza", "beleza", "barbearia"}, t)
        THEN "Vestuário e higiene pessoal"
    ELSE IF any({"rede farroupilha", "estacionamentos"}, t) THEN "Pedágio"
    ELSE IF any({"bazar", "havan", "lojas americanas", "leroy", "amazon"}, t)
        THEN "Loja e Bazar"
    ELSE "Outros"

categorize(title) ==
    LET t == lower(title) IN
    IF any({"supermerc", "mercado", "hortifruti", "mercearia", "atacad",
            "fruteira", "carrefour"}, t) THEN "Mercado"
    ELSE IF any({"posto", "gasbom", "gasolina", "abastece"}, t) THEN "Combustível"
    ELSE IF any({"uber", "via sul", "concessionaria", "concessionária"}, t)
        THEN "Transporte"
    ELSE IF any({"pedágio", "estacionamento"}, t) THEN "Pedágio"
    ELSE IF any({"academia", "prime fit"}, t) THEN "Academia"
    ELSE IF any({"farmacia", "farmácia", "panvel", "sao joao", "são joão"}, t)
        THEN "Saúde"
    ELSE IF any({"ricky", "xis", "lanches", "restaurante", "pizzaria", "buffon",
                 "padaria", "lanchonete", "hamburguer", "minhocaburger",
                 "rancho", "a lenha", "cia do sabor", "cremolatto",
                 "delivery"}, t)
        THEN RestauranteOrLanche(t)
    ELSE IF any({"google", "youtube", "netflix", "assinatura", "juliocesar",
                 "gemeascel", "conta vivo", "contavivo"}, t) THEN "Assinaturas"
    ELSE IF any({"barbeiro", "xbeleza", "beleza", "barbearia"}, t)
        THEN "Vestuário e higiene pessoal"
    ELSE IF any({"rede farroupilha", "estacionamentos"}, t) THEN "Pedágio"
    ELSE IF any({"bazar", "havan", "lojas americanas", "leroy", "amazon"}, t)
        THEN "Loja e Bazar"
    ELSE "Outros"

----------------------------------------------------------------------------
(* consolidate_conta_corrente.py: categorize_conta                         *)

\* The branch of the inflows ending in the catch-all of the outflows
categorize_entrada_outros(d) ==
    IF In("transferência recebida", d) \/ In("transferência recebida pelo pix", d)
    THEN IF In("rodrigo ribas", d) \/ In("nu pagamentos", d)
         THEN "Salário / Transferência"
         ELSE "Recebimento de Clientes"
    ELSE IF In("resgate rdb", d) THEN "Investimentos (resgate)"
    ELSE "Outros"

\* The branch of the inflows: amount > 0
categorize_entrada(d) ==
    IF In("transferência recebida", d) \/ In("transferência recebida pelo pix", d)
    THEN IF In("rodrigo ribas", d) \/ In("nu pagamentos", d)
         THEN "Salário / Transferência"
         ELSE "Recebimento de Clientes"
    ELSE IF In("resgate rdb", d) THEN "Investimentos (resgate)"
    ELSE "Outras entradas"

categorize_conta(desc, amount, entity) ==
    LET d == lower(desc)
        ent == lower(entity)
    IN
    IF amount > 0 THEN categorize_entrada(d)
    ELSE IF In("pagamento de fatura", d) THEN "Pagamento cartão"
    ELSE IF In("receita federal", d) \/ In("ipva", d) \/ In("sefaz", d)
            \/ In("receita federal", ent) THEN "Impostos e taxas"
    ELSE IF In("telefonica", d) \/ In("tel3", d) \/ In("tel3 telecom", ent)
        THEN "Comunicação"
    ELSE IF In("cia estadual de distribui", d)
            \/ In("cia riograndense de saneamento", d) THEN "Saneamento básico"
    ELSE IF In("aplicação rdb", d) \/ In("aplicacao rdb", d) THEN "Investimentos"
    ELSE IF In("pagamento de boleto", d) THEN
        IF In("consorcio", d) \/ In("consórcio", d) \/ In("consorcio", ent)
        THEN "Financiamento e consórcio"
        ELSE "Boletos e outros"
    ELSE IF In("compra no débito", d) \/ In("compra no debito", d) THEN
        IF In("posto", d) \/ In("gasolina", d) THEN "Combustível"
        ELSE IF In("supermerc", d) \/ In("mercado", d) \/ In("hortifruti", d)
            THEN "Mercado"
        ELSE IF In("restaurante", d) \/ In("lanch", d) \/ In("padaria", d)
            THEN IF In("restaurante", d) \/ In("lanch", d)
                 THEN "Restaurante"
                 ELSE "Lanche padaria e outros alimentos"
        ELSE "Outros"
    ELSE IF In("transferência enviada pelo pix", d) THEN
        IF In("***", desc) THEN "Presentes"
        ELSE IF In("mercadopago", d) \/ In("pagseguro", d) THEN "Outros"
        ELSE IF In("consorcio", d) \/ In("consórcio", d)
            THEN "Financiamento e consórcio"
        ELSE IF In("nubank", d) THEN "Outros"
        ELSE IF In("edison", d) \/ In("fornecedor", ent) \/ In("kirsten", d)
            THEN "Pagamento de Fornecedores"
        ELSE "Outros"
    ELSE "Outros"

----------------------------------------------------------------------------
(* Library behaviour the scripts rely on.                                  *)

Abs(x) == IF x < 0 THEN -x ELSE x

\* The elements of s at the positions in I, in order
RECURSIVE Pick(_, _)
Pick(s, I) ==
    IF I = {} THEN <<>>
    ELSE LET i == CHOOSE x \in I : \A y \in I : x <= y
         IN <<s[i]>> \o Pick(s, I \ {i})

\* sorted(s, key=..) / list.sort / Array.prototype.sort: stable; lt[i, j] says
\* that the key of s[i] is strictly before the key of s[j]
StableSort(s, lt) ==
    LET n == Len(s)
        pos(i) == Cardinality({j \in 1..n : lt[j, i] \/ (~lt[i, j] /\ j < i)}) + 1
    IN [k \in 1..n |-> s[CHOOSE i \in 1..n : pos(i) = k]]

\* sum of s[i].amount over the positions in I
RECURSIVE SumAt(_, _)
SumAt(s, I) ==
    IF I = {} THEN 0
    ELSE LET i == CHOOSE x \in I : TRUE IN s[i].amount + SumAt(s, I \ {i})

\* sum of s[i].total over the positions in I
RECURSIVE TotalAt(_, _)
TotalAt(s, I) ==
    IF I = {} THEN 0
    ELSE LET i == CHOOSE x \in I : TRUE IN s[i].total + TotalAt(s, I \ {i})

\* The keys of a dict filled in the order of ks: first occurrences
DictKeys(ks) == Pick(ks, {i \in 1..Len(ks) : \A j \in 1..(i - 1) : ks[j] # ks[i]})

\* Python's round(n/d, k), in units of 10^-k: the nearest integer to n/d,
\* a tie to the even one (d > 0)
PyRound(n, d) ==
    LET q == n \div d
        r == n - q * d
    IN IF 2 * r < d THEN q
       ELSE IF 2 * r > d THEN q + 1
       ELSE IF q % 2 = 0 THEN q ELSE q + 1

\* JS Math.round(n/d): the nearest integer, a tie upwards (d > 0)
JsRound(n, d) == (n \div d) + (IF 2 * (n % d) >= d THEN 1 ELSE 0)

\* str.strip(): leading and trailing blanks removed
RECURSIVE lstrip(_)
lstrip(t) == IF t # <<>> /\ Head(t) = " " THEN lstrip(Tail(t)) ELSE t

RECURSIVE rstrip(_)
rstrip(t) ==
    IF t # <<>> /\ t[Len(t)] = " " THEN rstrip(SubSeq(t, 1, Len(t) - 1)) ELSE t

strip(t) == rstrip(lstrip(t))

\* a < b for two strings: the first differing token decides, a proper
\* prefix is smaller
RECURSIVE StrLess(_, _)
StrLess(a, b) ==
    IF b = <<>> THEN FALSE
    ELSE IF a = <<>> THEN TRUE
    ELSE IF Head(a) # Head(b) THEN Ord(Head(a)) < Ord(Head(b))
    ELSE StrLess(Tail(a), Tail(b))

\* Dates: "YYYY-MM-DD" as [y, m, d]; the empty string is NoDate
NoDate == [y |-> 0, m |-> 0, d |-> 0]

DateLess(a, b) ==
    \/ a.y < b.y
    \/ a.y = b.y /\ a.m < b.m
    \/ a.y = b.y /\ a.m = b.m /\ a.d < b.d

\* date[:7] / date.slice(0, 7)
Month(date) == <<date.y, date.m>>

MonthLess(a, b) == a[1] < b[1] \/ (a[1] = b[1] /\ a[2] < b[2])

IsLeap(y) == (y % 4 = 0 /\ y % 100 # 0) \/ y % 400 = 0

DaysInMonth(y, m) ==
    IF m = 2 THEN (IF IsLeap(y) THEN 29 ELSE 28)
    ELSE IF m \in {4, 6, 9, 11} THEN 30 ELSE 31

\* datetime.strptime(s, "%Y-%m-%d") succeeds
ValidDate(date) ==
    /\ date.y \in 1..9999
    /\ date.m \in 1..12
    /\ date.d \in 1..DaysInMonth(date.y, date.m)

RECURSIVE DaysBeforeMonth(_, _)
DaysBeforeMonth(y, m) ==
    IF m = 1 THEN 0 ELSE DaysBeforeMonth(y, m - 1) + DaysInMonth(y, m - 1)

\* datetime.toordinal(): days since 0001-01-01
ToOrdinal(date) ==
    LET p == date.y - 1
    IN 365 * p + (p \div 4) - (p \div 100) + (p \div 400)
       + DaysBeforeMonth(date.y, date.m) + date.d

----------------------------------------------------------------------------
(* consolidate_csv.py                                                      *)

\* An amount cell is a decimal string of value mills/1000 (with "," or "."),
\* or a string float() rejects (ok = FALSE)
parse_amount(s) == IF s.ok THEN s.mills ELSE 0

\* str(x) of a float, as csv.DictWriter writes it
FloatStr(x) == [ok |-> TRUE, mills |-> x]

load_all_csvs(csvs) ==
    LET kept == Pick(csvs, {i \in 1..Len(csvs) : csvs[i].date # NoDate})
    IN [i \in 1..Len(kept) |->
          [date |-> kept[i].date, title |-> strip(kept[i].title),
           amount |-> parse_amount(kept[i].amount)]]

\* A key without the amount
DedupeKeyNoAmount(r) == <<r.date, r.title>>

DedupeKey(r) == <<r.date, r.title, r.amount>>

\* A pass that removes only the last row of each repeated key
dedupe_last_only(rows) ==
    Pick(rows, {i \in 1..Len(rows) :
                  \/ \A j \in 1..(i - 1) : DedupeKey(rows[j]) # DedupeKey(rows[i])
                  \/ \E j \in (i + 1)..Len(rows) : DedupeKey(rows[j]) = DedupeKey(rows[i])})

dedupe(rows) ==
    Pick(rows, {i \in 1..Len(rows) :
                  \A j \in 1..(i - 1) : DedupeKey(rows[j]) # DedupeKey(rows[i])})

\* (date, title, amount) of a before (date, title, amount) of b
KeyLess(a, b) ==
    \/ DateLess(a.date, b.date)
    \/ a.date = b.date /\ StrLess(a.title, b.title)
    \/ a.date = b.date /\ a.title = b.title /\ a.amount < b.amount

\* sorted(rows, key=lambda r: (r["date"], r["title"], r["amount"]))
SortByKey(rows) ==
    StableSort(rows, [i \in 1..Len(rows), j \in 1..Len(rows) |-> KeyLess(rows[i], rows[j])])

MaxOrdinal(rows) ==
    CHOOSE o \in {ToOrdinal(rows[i].date) : i \in 1..Len(rows)} :
        \A i \in 1..Len(rows) : ToOrdinal(rows[i].date) <= o

\* expenses = [r for r in raw if r["amount"] > 0]
Expenses(raw) == Pick(raw, {i \in 1..Len(raw) : raw[i].amount > 0})

\* The rows csv.DictWriter writes
CsvRows(sorted) ==
    [i \in 1..Len(sorted) |->
        [date |-> sorted[i].date, title |-> sorted[i].title,
         amount |-> FloatStr(sorted[i].amount)]]

\* last_12 of main(), given cutoff = max_d - timedelta(days=365)
Last12(expenses, cutoff) ==
    Pick(expenses, {i \in 1..Len(expenses) : ToOrdinal(expenses[i].date) >= cutoff})

\* main() from "if not expenses" on; written = FALSE when it returns early or
\* strptime raises ValueError
WriteLast12(expenses) ==
    IF expenses = <<>> THEN [written |-> FALSE]
    ELSE IF \E i \in 1..Len(expenses) : ~ValidDate(expenses[i].date)
    THEN [written |-> FALSE]
    ELSE [written |-> TRUE,
          rows |-> CsvRows(SortByKey(Last12(expenses, MaxOrdinal(expenses) - 365)))]

\* main(): what it writes to consolidated_12m_expenses.csv
consolidate_csv_main(csvs) == WriteLast12(Expenses(dedupe(load_all_csvs(csvs))))

----------------------------------------------------------------------------
(* build_dashboard.py: loading and the build-time aggregates               *)

BUDGET_MONTHLY == 312500

\* round(amount, 2) of an amount in mills: cents
round2(mills) == PyRound(mills, 10)

\* The record of a row load_2025_expenses keeps
ExpenseOf(row) ==
    [date |-> row.date,
     title |-> strip(row.title),
     amount |-> round2(parse_amount(row.amount)),
     category |-> categorize(strip(row.title))]

\* The rows load_2025_expenses keeps
Kept2025(csv) ==
    Pick(csv, {i \in 1..Len(csv) :
                 /\ csv[i].date.y = 2025
                 /\ ~is_blacklisted(strip(csv[i].title))})

ExpensesOf(kept) == [i \in 1..Len(kept) |-> ExpenseOf(kept[i])]

load_2025_expenses(csv) == SortByKey(ExpensesOf(Kept2025(csv)))

\* x["total"] of a before x["total"] of b: ascending
SortByTotalAsc(out) ==
    StableSort(out, [i \in 1..Len(out), j \in 1..Len(out) |-> out[i].total < out[j].total])

\* -x["total"] of a before -x["total"] of b
SortByTotalDesc(out) ==
    StableSort(out, [i \in 1..Len(out), j \in 1..Len(out) |-> out[i].total > out[j].total])

\* by[title] of aggregate_by_title for the titles keys: amount sum and count
TitleSums(expenses, keys) ==
    [k \in 1..Len(keys) |->
        [title |-> keys[k],
         total |-> SumAt(expenses, {i \in 1..Len(expenses) : expenses[i].title = keys[k]}),
         count |-> Cardinality({i \in 1..Len(expenses) : expenses[i].title = keys[k]})]]

Titles(expenses) == [i \in 1..Len(expenses) |-> expenses[i].title]

aggregate_by_title(expenses) ==
    SortByTotalDesc(TitleSums(expenses, DictKeys(Titles(expenses))))

\* by[month] of aggregate_by_month for the months keys
MonthSums(expenses, keys) ==
    [k \in 1..Len(keys) |->
        [month |-> keys[k],
         total |-> SumAt(expenses, {i \in 1..Len(expenses) :
                                      Month(expenses[i].date) = keys[k]})]]

Months(expenses) == [i \in 1..Len(expenses) |-> Month(expenses[i].date)]

\* sorted(by.items()): ascending month
SortByMonth(out) ==
    StableSort(out, [i \in 1..Len(out), j \in 1..Len(out) |->
                       MonthLess(out[i].month, out[j].month)])

aggregate_by_month(expenses) ==
    SortByMonth(MonthSums(expenses, DictKeys(Months(expenses))))

\* by[category] of aggregate_by_category for the categories keys
CategorySums(expenses, keys) ==
    [k \in 1..Len(keys) |->
        [category |-> keys[k],
         total |-> SumAt(expenses, {i \in 1..Len(expenses) :
                                      expenses[i].category = keys[k]})]]

Categories(expenses) == [i \in 1..Len(expenses) |-> expenses[i].category]

aggregate_by_category(expenses) ==
    SortByTotalDesc(CategorySums(expenses, DictKeys(Categories(expenses))))

\* cls of build_abc / aggregateByTitle, for pct = cum / total * 100
AbcClass(cum, total) ==
    IF cum * 100 <= 80 * total THEN "A"
    ELSE IF cum * 100 <= 95 * total THEN "B"
    ELSE "C"

\* {**x, "cum_pct": pct, "abc": cls}
WithAbc(x, pct, cls) ==
    [f \in DOMAIN x \cup {"cum_pct", "abc"} |->
        IF f = "cum_pct" THEN pct ELSE IF f = "abc" THEN cls ELSE x[f]]

\* cum_pct is kept in tenths of a percent: 10 * round(pct, 1)
build_abc(by_title, total) ==
    IF total <= 0 THEN by_title
    ELSE [i \in 1..Len(by_title) |->
            WithAbc(by_title[i],
                    PyRound(TotalAt(by_title, 1..i) * 1000, total),
                    AbcClass(TotalAt(by_title, 1..i), total))]

\* The entry of a month over the budget
OverEntry(m) ==
    [month |-> m.month, total |-> m.total, over_amount |-> m.total - BUDGET_MONTHLY]

\* The months of by_month at or over the budget
OverMonthsOrAt(by_month) ==
    Pick(by_month, {i \in 1..Len(by_month) : by_month[i].total >= BUDGET_MONTHLY})

\* The months of by_month over the budget
OverMonths(by_month) ==
    Pick(by_month, {i \in 1..Len(by_month) : by_month[i].total > BUDGET_MONTHLY})

over_budget_months(by_month) ==
    [i \in 1..Len(OverMonths(by_month)) |-> OverEntry(OverMonths(by_month)[i])]

\* The last of the largest entries of over_budget
MaxOverLast(over_budget) ==
    over_budget[CHOOSE i \in 1..Len(over_budget) :
        /\ \A j \in 1..Len(over_budget) :
              over_budget[j].over_amount <= over_budget[i].over_amount
        /\ \A j \in (i + 1)..Len(over_budget) :
              over_budget[j].over_amount < over_budget[i].over_amount]

\* max(over_budget, key=lambda x: x["over_amount"]): the first of the largest
MaxOver(over_budget) ==
    over_budget[CHOOSE i \in 1..Len(over_budget) :
        /\ \A j \in 1..Len(over_budget) :
              over_budget[j].over_amount <= over_budget[i].over_amount
        /\ \A j \in 1..(i - 1) :
              over_budget[j].over_amount < over_budget[i].over_amount]

\* by_category[:3]
Top3(by_category) ==
    [i \in 1..(IF Len(by_category) < 3 THEN Len(by_category) ELSE 3) |->
        by_category[i].category]

\* The data its sentences are formatted from: for the overage sentence n, the
\* worst month and its over_amount (no sentence when over_budget is empty),
\* and the names of by_category[:3]
build_recommendations(by_category, by_month, over_budget, total) ==
    [overage |-> IF over_budget # <<>>
                 THEN <<[n |-> Len(over_budget),
                         month |-> MaxOver(over_budget).month,
                         over_amount |-> MaxOver(over_budget).over_amount]>>
                 ELSE <<>>,
     names |-> Top3(by_category)]
\* len(by_month) or 1
MonthsWithData(by_month) == IF Len(by_month) # 0 THEN Len(by_month) ELSE 1

\* all_categories of main() and of build_conta_payload, as a set
AllCategories(by_category) ==
    {by_category[i].category : i \in 1..Len(by_category)} \cup {"Outros"}

\* payload of main(), from the aggregates main() has computed
Payload(expenses, by_title, by_month, by_category, total_2025, over_budget) ==
    [year |-> 2025,
     budget_monthly |-> BUDGET_MONTHLY,
     over_budget_months |-> over_budget,
     recommendations |->
         build_recommendations(by_category, by_month, over_budget, total_2025),
     total |-> total_2025,
     count |-> Len(expenses),
     avg_monthly |-> PyRound(total_2025, MonthsWithData(by_month)),
     avg_weekly |-> PyRound(total_2025, 52),
     expenses |-> expenses,
     by_title |-> build_abc(by_title, total_2025),
     by_month |-> by_month,
     by_category |-> by_category,
     all_categories |-> AllCategories(by_category),
     master_categories |-> MASTER_CATEGORIES,
     months_count |-> MonthsWithData(by_month)]

\* payload, with over_budget = over_budget_months(by_month)
PayloadOf(expenses, by_title, by_month, by_category, total_2025) ==
    Payload(expenses, by_title, by_month, by_category, total_2025,
            over_budget_months(by_month))

\* payload of main() for the records expenses
build_payload(expenses) ==
    PayloadOf(expenses, aggregate_by_title(expenses), aggregate_by_month(expenses),
              aggregate_by_category(expenses), SumAt(expenses, 1..Len(expenses)))

----------------------------------------------------------------------------
(* consolidate_conta_corrente.py                                           *)

is_blacklisted_conta(desc) == any(BLACKLIST, lower(desc))

\* The Data cell split on "/": each part is [num |-> TRUE, v |-> n] when int()
\* accepts it and [num |-> FALSE, v |-> 0] when it raises ValueError
parse_date(parts) ==
    IF Len(parts) # 3 THEN NoDate
    ELSE IF \E i \in 1..3 : ~parts[i].num THEN NoDate
    ELSE [y |-> parts[3].v, m |-> parts[2].v, d |-> parts[1].v]

\* d[e+1:] matches \s*- : blanks, then a hyphen
HyphenAfter(d, e) ==
    \E k \in (e + 1)..Len(d) : d[k] = "-" /\ \A x \in (e + 1)..(k - 1) : d[x] = " "

\* Where <name>\s*-  ends when it matches at the start of d (0: no match)
PrefixEnd(d, names) ==
    IF d # <<>> /\ Lower(d[1]) \in names /\ HyphenAfter(d, 1)
    THEN CHOOSE k \in 2..Len(d) : d[k] = "-" /\ \A x \in 2..(k - 1) : d[x] = " "
    ELSE 0

\* First index from p on that holds no blank (Len(d) + 1: none)
SkipBlanks(d, p) ==
    CHOOSE q \in p..(Len(d) + 1) :
        /\ \A x \in p..(q - 1) : d[x] = " "
        /\ q <= Len(d) => d[q] # " "

\* \s*(.+?)\s*- from index p: \s* takes as many blanks as a match allows, the
\* group as few characters as a match allows. <<s, e>>: the group is d[s..e];
\* <<0, 0>>: no match
LazyGroup(d, p) ==
    LET q == SkipBlanks(d, p)
        C == {se \in (p..Len(d)) \X (p..Len(d)) :
                se[1] <= q /\ se[1] <= se[2] /\ HyphenAfter(d, se[2])}
    IN IF C = {} THEN <<0, 0>>
       ELSE CHOOSE se \in C :
              \A o \in C : o[1] < se[1] \/ (o[1] = se[1] /\ se[2] <= o[2])

\* \s*(.+) from index p, to the end of d
GreedyGroup(d, p) ==
    LET q == SkipBlanks(d, p)
    IN IF q <= Len(d) THEN <<q, Len(d)>>
       ELSE IF p <= Len(d) THEN <<Len(d), Len(d)>>
       ELSE <<0, 0>>

\* The texts of the model are shorter than 80 characters: d[:80] is d
extract_entity(desc) ==
    LET d == strip(desc)
        p1 == PrefixEnd(d, {"transferência recebida"})
        g1 == LazyGroup(d, p1 + 1)
        p2 == PrefixEnd(d, {"transferência enviada pelo pix",
                            "transferência recebida pelo pix"})
        g2 == LazyGroup(d, p2 + 1)
        p3 == PrefixEnd(d, {"pagamento de boleto efetuado"})
        g3 == GreedyGroup(d, p3 + 1)
        p7 == PrefixEnd(d, {"compra no débito"})
        g7 == GreedyGroup(d, p7 + 1)
    IN IF d = <<>> THEN <<"Desconhecido">>
       ELSE IF p1 # 0 /\ g1 # <<0, 0>> THEN strip(SubSeq(d, g1[1], g1[2]))
       ELSE IF p2 # 0 /\ g2 # <<0, 0>> THEN strip(SubSeq(d, g2[1], g2[2]))
       ELSE IF p3 # 0 /\ g3 # <<0, 0>> THEN strip(SubSeq(d, g3[1], g3[2]))
       ELSE IF In("pagamento de fatura", lower(d)) THEN <<"Pagamento de fatura">>
       ELSE IF In("resgate rdb", lower(d)) THEN <<"Resgate RDB">>
       ELSE IF In("aplicação rdb", lower(d)) THEN <<"Aplicação RDB">>
       ELSE IF p7 # 0 /\ g7 # <<0, 0>> THEN strip(SubSeq(d, g7[1], g7[2]))
       ELSE d

\* (date, amount, description) of a before (date, amount, description) of b
ContaKeyLess(a, b) ==
    \/ DateLess(a.date, b.date)
    \/ a.date = b.date /\ a.amount < b.amount
    \/ a.date = b.date /\ a.amount = b.amount /\ StrLess(a.description, b.description)

\* The transaction of a row load_all_conta_corrente keeps, given its
\* amount, stripped description and entity
Transaction(row, valor, desc, entity) ==
    [date |-> parse_date(row.Data),
     amount |-> round2(valor),
     entity |-> entity,
     description |-> desc,
     category |-> categorize_conta(desc, valor, entity),
     type |-> IF valor >= 0 THEN "entrada" ELSE "saida"]

TransactionOf(row) ==
    Transaction(row, parse_amount(row.Valor), strip(row.Descricao),
                extract_entity(strip(row.Descricao)))

\* The rows load_all_conta_corrente keeps
KeptConta(nu) ==
    Pick(nu, {i \in 1..Len(nu) :
                /\ parse_date(nu[i].Data).y = 2025
                /\ ~is_blacklisted_conta(strip(nu[i].Descricao))})

TransactionsOf(kept) == [i \in 1..Len(kept) |-> TransactionOf(kept[i])]

\* sorted(rows, key=lambda x: (x["date"], x["amount"], x["description"]))
SortByContaKey(rows) ==
    StableSort(rows, [i \in 1..Len(rows), j \in 1..Len(rows) |->
                        ContaKeyLess(rows[i], rows[j])])

load_all_conta_corrente(nu) == SortByContaKey(TransactionsOf(KeptConta(nu)))

\* sum of the amounts > 0
Entradas(transactions) ==
    SumAt(transactions, {i \in 1..Len(transactions) : transactions[i].amount > 0})

\* sum of abs(amount) of the amounts < 0
Saidas(transactions) ==
    -SumAt(transactions, {i \in 1..Len(transactions) : transactions[i].amount < 0})

\* main() after load_all_conta_corrente; written = FALSE when there is no
\* transaction
WriteConta(transactions) ==
    IF transactions = <<>> THEN [written |-> FALSE]
    ELSE [written |-> TRUE,
          meta |-> [year |-> 2025,
                    transaction_count |-> Len(transactions),
                    entradas_total |-> Entradas(transactions),
                    saidas_total |-> Saidas(transactions),
                    saldo_2025 |-> Entradas(transactions) - Saidas(transactions)],
          transactions |-> transactions]

\* main(): the JSON it writes
consolidate_conta_main(nu) == WriteConta(load_all_conta_corrente(nu))

----------------------------------------------------------------------------
(* build_dashboard.py: the checking-account payload                        *)

\* null / a file that does not exist
Null == [null |-> TRUE]

\* (t.get("entity") or "Outros").strip()
EntityOf(t) == strip(IF t.entity # <<>> THEN t.entity ELSE <<"Outros">>)

\* (t.get("category") or "Outros").strip(); a category holds no blank at its ends
CategoryOf(t) == IF t.category # "" THEN t.category ELSE "Outros"

\* saidas = [t for t in transactions if t.get("amount", 0) < 0]
Outflows(transactions) ==
    Pick(transactions, {i \in 1..Len(transactions) : transactions[i].amount < 0})

\* by_entity_sum of the entities keys
EntitySums(saidas, keys) ==
    [k \in 1..Len(keys) |->
        [title |-> keys[k],
         total |-> -SumAt(saidas, {i \in 1..Len(saidas) : EntityOf(saidas[i]) = keys[k]})]]

Entities(saidas) == [i \in 1..Len(saidas) |-> EntityOf(saidas[i])]

\* by_entity of build_conta_payload
ByEntity(saidas) == SortByTotalDesc(EntitySums(saidas, DictKeys(Entities(saidas))))

\* build_abc(by_entity, total_saidas) if total_saidas > 0 else []
ByEntityAbc(by_entity, total_saidas) ==
    IF total_saidas > 0 THEN build_abc(by_entity, total_saidas) ELSE <<>>

\* by_cat_sum of the categories keys, "Pagamento cartão" replaced by
\* total_cartao when total_cartao is not 0
ContaCategorySums(saidas, keys, total_cartao) ==
    [k \in 1..Len(keys) |->
        [category |-> keys[k],
         total |-> IF total_cartao # 0 /\ keys[k] = "Pagamento cartão"
                   THEN total_cartao
                   ELSE -SumAt(saidas, {i \in 1..Len(saidas) :
                                          CategoryOf(saidas[i]) = keys[k]})]]

ContaCategories(saidas) == [i \in 1..Len(saidas) |-> CategoryOf(saidas[i])]

\* by_category of build_conta_payload
ContaByCategoryPy(saidas, total_cartao) ==
    SortByTotalDesc(
        ContaCategorySums(saidas, DictKeys(ContaCategories(saidas)), total_cartao))

\* The transactions that have a month: (t.get("date") or "")[:7] is not empty
Dated(transactions) ==
    Pick(transactions, {i \in 1..Len(transactions) : transactions[i].date # NoDate})

\* The sums with saidas kept negative
FlowSumsSigned(dated, keys) ==
    [k \in 1..Len(keys) |->
        [month |-> keys[k],
         entradas |-> SumAt(dated, {i \in 1..Len(dated) :
                                      Month(dated[i].date) = keys[k] /\ dated[i].amount > 0}),
         saidas |-> SumAt(dated, {i \in 1..Len(dated) :
                                    Month(dated[i].date) = keys[k] /\ ~(dated[i].amount > 0)}),
         saldo |-> SumAt(dated, {i \in 1..Len(dated) : Month(dated[i].date) = keys[k]})]]

\* entradas, saidas and saldo of the months keys
FlowSums(dated, keys) ==
    [k \in 1..Len(keys) |->
        [month |-> keys[k],
         entradas |-> SumAt(dated, {i \in 1..Len(dated) :
                                      Month(dated[i].date) = keys[k] /\ dated[i].amount > 0}),
         saidas |-> -SumAt(dated, {i \in 1..Len(dated) :
                                     Month(dated[i].date) = keys[k] /\ ~(dated[i].amount > 0)}),
         saldo |-> SumAt(dated, {i \in 1..Len(dated) : Month(dated[i].date) = keys[k]})]]

\* by_month of build_conta_payload
ContaByMonthPy(dated) == SortByMonth(FlowSums(dated, DictKeys(Months(dated))))

\* The payload, from the aggregates build_conta_payload has computed
ContaPayload(conta_data, by_entity, by_category, by_month) ==
    [year |-> 2025,
     entradas_total |-> conta_data.meta.entradas_total,
     saidas_total |-> conta_data.meta.saidas_total,
     saldo_2025 |-> conta_data.meta.saldo_2025,
     count |-> Len(conta_data.transactions),
     transactions |-> conta_data.transactions,
     by_entity |-> ByEntityAbc(by_entity, TotalAt(by_entity, 1..Len(by_entity))),
     by_category |-> by_category,
     by_month |-> by_month,
     master_categories |-> MASTER_CATEGORIES,
     all_categories |-> AllCategories(by_category)]

build_conta_payload(conta_data, total_cartao) ==
    ContaPayload(conta_data,
                 ByEntity(Outflows(conta_data.transactions)),
                 ContaByCategoryPy(Outflows(conta_data.transactions), total_cartao),
                 ContaByMonthPy(Dated(conta_data.transactions)))

\* payload_consolidado of main()
Consolidado(payload, payload_conta) ==
    [year |-> 2025,
     receitas |-> IF payload_conta # Null THEN payload_conta.entradas_total ELSE 0,
     despesas |-> IF payload_conta # Null THEN payload_conta.saidas_total ELSE 0,
     resultado |-> IF payload_conta # Null
                   THEN payload_conta.entradas_total - payload_conta.saidas_total
                   ELSE 0,
     by_month_fluxo |-> IF payload_conta # Null THEN payload_conta.by_month ELSE <<>>,
     total_cartao |-> payload.total,
     by_category_cartao |-> payload.by_category,
     by_category_conta |-> IF payload_conta # Null THEN payload_conta.by_category ELSE <<>>]

\* What main() embeds in index.html
Html(payload, payload_conta) ==
    [written |-> TRUE,
     PAYLOAD |-> payload,
     PAYLOAD_CONTA |-> payload_conta,
     PAYLOAD_CONSOLIDADO |-> Consolidado(payload, payload_conta)]

\* payload_conta = build_conta_payload(conta_raw, total_2025) if conta_raw else None
PayloadConta(json, payload) ==
    IF json.written THEN build_conta_payload(json, payload.total) ELSE Null

\* main() once payload is built
EmbedPayloads(payload, json) == Html(payload, PayloadConta(json, payload))

\* main() once the expenses are loaded
BuildFrom(expenses, json) ==
    IF expenses = <<>> THEN [written |-> FALSE]
    ELSE EmbedPayloads(build_payload(expenses), json)

\* main(): the payloads embedded in index.html; written = FALSE when it
\* returns before writing
build_dashboard_main(csv, json) ==
    IF ~csv.written THEN [written |-> FALSE]
    ELSE BuildFrom(load_2025_expenses(csv.rows), json)

----------------------------------------------------------------------------
(* index.html: the script of the generated page                            *)

OVERRIDES_KEY == "finfeed_overrides_2025"

\* One key for both maps
OVERRIDES_KEY_SHARED == "finfeed_overrides_2025"

OVERRIDES_CONTA_KEY == "finfeed_overrides_conta_2025"

\* o && o.category !== undefined
HasCategory(ov, i) == i \in DOMAIN ov /\ "category" \in DOMAIN ov[i]

\* o && o.count !== undefined
HasCount(ov, i) == i \in DOMAIN ov /\ "count" \in DOMAIN ov[i]

\* ov[idx] || {}
EntryOf(ov, idx) == IF idx \in DOMAIN ov THEN ov[idx] ELSE <<>>

\* The entry replaced by one that holds the field alone
SetFieldAlone(entry, field, value) == [f \in {field} |-> value]

\* entry[field] = value
SetField(entry, field, value) ==
    [f \in DOMAIN entry \cup {field} |-> IF f = field THEN value ELSE entry[f]]

\* ov[idx] = ov[idx] || {}; ov[idx][field] = value
Upsert(ov, idx, field, value) ==
    [i \in DOMAIN ov \cup {idx} |->
        IF i = idx THEN SetField(EntryOf(ov, idx), field, value) ELSE ov[i]]

\* Whether a key is an array index.  The only digits of the model are the
\* token "99"
IsIndexKey(k) == k # <<>> /\ Len(k) <= 4 /\ \A i \in 1..Len(k) : k[i] = "99"

\* Ascending array indices: the shorter of two texts of "99" is the smaller
SortIndexKeys(index) ==
    StableSort(index, [i \in 1..Len(index), j \in 1..Len(index) |->
                         Len(index[i]) < Len(index[j])])

\* The keys first, an object filled in this order would hold: array indices
\* first, ascending, then the other keys in insertion order
KeyOrder(first) ==
    SortIndexKeys(Pick(first, {i \in 1..Len(first) : IsIndexKey(first[i])}))
    \o Pick(first, {i \in 1..Len(first) : ~IsIndexKey(first[i])})

\* Object.keys of an object filled in the order of ks
ObjectKeys(ks) == KeyOrder(DictKeys(ks))

getRowCategory(P, ov, idx) ==
    IF HasCategory(ov, idx) THEN ov[idx].category
    ELSE IF P.expenses[idx + 1].category # "" THEN P.expenses[idx + 1].category
    ELSE "Outros"

\* A record that has a count field stays out
getRowCountOnce(ov, idx) == ~HasCount(ov, idx)

getRowCount(ov, idx) == IF HasCount(ov, idx) THEN ov[idx].count ELSE TRUE

\* The records with the category of the payload, whatever the override is
EffectiveRowsBase(P, ov) ==
    [i \in 1..Len(P.expenses) |->
        [date |-> P.expenses[i].date, title |-> P.expenses[i].title,
         amount |-> P.expenses[i].amount,
         category |-> P.expenses[i].category,
         count |-> getRowCount(ov, i - 1), idx |-> i - 1]]

\* The records PAYLOAD.expenses.map(...) returns
EffectiveRows(P, ov) ==
    [i \in 1..Len(P.expenses) |->
        [date |-> P.expenses[i].date, title |-> P.expenses[i].title,
         amount |-> P.expenses[i].amount,
         category |-> getRowCategory(P, ov, i - 1),
         count |-> getRowCount(ov, i - 1), idx |-> i - 1]]

\* The records without the filter on _count
CountedAll(all) == all

\* .filter(function (r) { return r._count; })
Counted(all) == Pick(all, {i \in 1..Len(all) : all[i].count})

getEffectiveExpenses(P, ov) == Counted(EffectiveRows(P, ov))

\* by[m] of aggregateByMonth for the months keys
byMonth(expenses, keys) ==
    [k \in 1..Len(keys) |->
        [month |-> keys[k],
         total |-> SumAt(expenses, {i \in 1..Len(expenses) :
                                      Month(expenses[i].date) = keys[k]})]]

\* Object.keys(by).sort(): ascending month
SortMonths(out) ==
    StableSort(out, [i \in 1..Len(out), j \in 1..Len(out) |->
                       MonthLess(out[i].month, out[j].month)])

aggregateByMonth(expenses) ==
    SortMonths(byMonth(expenses, DictKeys(Months(expenses))))

\* arr.sort(function (a, b) { return b.total - a.total; })
SortDesc(arr) ==
    StableSort(arr, [i \in 1..Len(arr), j \in 1..Len(arr) |-> arr[i].total > arr[j].total])

\* The entry of arr[i] with its class; cum_pct is kept in tenths of a
\* percent: Math.round(pct * 10)
AbcEntry(x, cum, total) ==
    [title |-> x.title, total |-> x.total,
     cum_pct |-> IF total > 0 THEN JsRound(cum * 1000, total) ELSE 0,
     abc |-> IF total > 0 THEN AbcClass(cum, total) ELSE "A"]

\* arr.map(...) of aggregateByTitle, total being the sum of arr
AbcOf(arr, total) ==
    [i \in 1..Len(arr) |-> AbcEntry(arr[i], TotalAt(arr, 1..i), total)]

\* by[title] of aggregateByTitle for the titles keys
byTitle(expenses, keys) ==
    [k \in 1..Len(keys) |->
        [title |-> keys[k],
         total |-> SumAt(expenses, {i \in 1..Len(expenses) : expenses[i].title = keys[k]})]]

\* arr of aggregateByTitle, sorted
TitleArr(expenses) == SortDesc(byTitle(expenses, ObjectKeys(Titles(expenses))))

\* The classes of a sorted arr
WithClasses(arr) == AbcOf(arr, TotalAt(arr, 1..Len(arr)))

aggregateByTitle(expenses) == WithClasses(TitleArr(expenses))

\* by[category] when each record replaces the sum instead of adding to it
byCategoryLast(expenses, keys) ==
    [k \in 1..Len(keys) |->
        [category |-> keys[k],
         total |-> expenses[CHOOSE i \in 1..Len(expenses) :
                      /\ expenses[i].category = keys[k]
                      /\ \A j \in (i + 1)..Len(expenses) :
                            expenses[j].category # keys[k]].amount]]

\* by[category] of aggregateByCategory for the categories keys
byCategory(expenses, keys) ==
    [k \in 1..Len(keys) |->
        [category |-> keys[k],
         total |-> SumAt(expenses, {i \in 1..Len(expenses) :
                                      expenses[i].category = keys[k]})]]

aggregateByCategory(expenses) ==
    SortDesc(byCategory(expenses, DictKeys(Categories(expenses))))

\* var budget = PAYLOAD.budget_monthly || 3125
budget(P) == IF P.budget_monthly # 0 THEN P.budget_monthly ELSE 312500

\* eff.filter(...) when filter holds a category
FilterBy(all, filter) ==
    IF filter # {} THEN Pick(all, {i \in 1..Len(all) : all[i].category \in filter})
    ELSE all

\* by_month.filter(function (m) { return m.total > budget; })
OverBudget(by_month, b) == Pick(by_month, {i \in 1..Len(by_month) : by_month[i].total > b})

\* .map(...) of over_budget_months
OverEntries(over, b) ==
    [i \in 1..Len(over) |->
        [month |-> over[i].month, total |-> over[i].total,
         over_amount |-> over[i].total - b]]

\* by_month.length || 1
monthsCount(by_month) == IF Len(by_month) # 0 THEN Len(by_month) ELSE 1

\* The object recalc returns
Recalc(eff, total, by_month, b) ==
    [total |-> total,
     count |-> Len(eff),
     avg_monthly |-> JsRound(total, monthsCount(by_month)),
     avg_weekly |-> JsRound(total, 52),
     by_month |-> by_month,
     by_title |-> aggregateByTitle(eff),
     by_category |-> aggregateByCategory(eff),
     over_budget_months |-> OverEntries(OverBudget(by_month, b), b)]

\* recalc for the records eff that pass the filter
RecalcOf(eff, b) == Recalc(eff, SumAt(eff, 1..Len(eff)), aggregateByMonth(eff), b)

recalc(P, ov, filter) == RecalcOf(FilterBy(getEffectiveExpenses(P, ov), filter), budget(P))

getRowCategoryConta(PC, ov, idx) ==
    IF HasCategory(ov, idx) THEN ov[idx].category
    ELSE IF PC.transactions[idx + 1].category # "" THEN PC.transactions[idx + 1].category
    ELSE "Outros"

getRowCountConta(ov, idx) == IF HasCount(ov, idx) THEN ov[idx].count ELSE TRUE

\* The records PAYLOAD_CONTA.transactions.map(...) returns
EffectiveContaRows(PC, ov) ==
    [i \in 1..Len(PC.transactions) |->
        [date |-> PC.transactions[i].date, amount |-> PC.transactions[i].amount,
         entity |-> PC.transactions[i].entity,
         description |-> PC.transactions[i].description,
         category |-> getRowCategoryConta(PC, ov, i - 1),
         type |-> PC.transactions[i].type,
         count |-> getRowCountConta(ov, i - 1), idx |-> i - 1]]

getEffectiveContaTransactions(PC, ov) ==
    IF PC = Null THEN <<>> ELSE Counted(EffectiveContaRows(PC, ov))

\* byMonthEnt, byMonthSai and the saldo of the months keys
byMonthFlow(dated, keys) ==
    [k \in 1..Len(keys) |->
        [month |-> keys[k],
         entradas |-> SumAt(dated, {i \in 1..Len(dated) :
                                      Month(dated[i].date) = keys[k] /\ dated[i].amount > 0}),
         saidas |-> -SumAt(dated, {i \in 1..Len(dated) :
                                     Month(dated[i].date) = keys[k] /\ ~(dated[i].amount > 0)}),
         saldo |-> SumAt(dated, {i \in 1..Len(dated) : Month(dated[i].date) = keys[k]})]]

\* byMonth of renderContaTab and of renderConsolidadoTab
FlowByMonth(dated) == SortMonths(byMonthFlow(dated, DictKeys(Months(dated))))

\* t.entity || 'Outros'
jsEntity(t) == IF t.entity # <<>> THEN t.entity ELSE <<"Outros">>

jsEntities(saidas) == [i \in 1..Len(saidas) |-> jsEntity(saidas[i])]

\* byEntitySum for the entities keys
byEntitySum(saidas, keys) ==
    [k \in 1..Len(keys) |->
        [title |-> keys[k],
         total |-> -SumAt(saidas, {i \in 1..Len(saidas) : jsEntity(saidas[i]) = keys[k]})]]

\* by_entity of renderContaTab
byEntity(saidas) ==
    WithClasses(SortDesc(byEntitySum(saidas, ObjectKeys(jsEntities(saidas)))))

\* byCatSum for the categories keys
byCatSum(saidas, keys) ==
    [k \in 1..Len(keys) |->
        [category |-> keys[k],
         total |-> -SumAt(saidas, {i \in 1..Len(saidas) :
                                     CategoryOf(saidas[i]) = keys[k]})]]

\* by_category of renderContaTab, by_category_conta of renderConsolidadoTab
byCategoryConta(saidas) ==
    SortDesc(byCatSum(saidas, DictKeys(ContaCategories(saidas))))

\* What renderContaTab shows for the records eff that pass the filter
ContaTab(eff) ==
    [entradas_total |-> Entradas(eff),
     saidas_total |-> Saidas(eff),
     saldo |-> Entradas(eff) - Saidas(eff),
     count |-> Len(eff),
     by_month |-> FlowByMonth(Dated(eff)),
     by_entity |-> byEntity(Outflows(eff)),
     by_category |-> byCategoryConta(Outflows(eff))]

renderContaTab(PC, ov, filter) ==
    IF PC = Null THEN [notice |-> TRUE]
    ELSE ContaTab(FilterBy(getEffectiveContaTransactions(PC, ov), filter))

\* What renderConsolidadoTab shows for the records eff
ConsolidadoTab(eff) ==
    [receitas |-> Entradas(eff),
     despesas |-> Saidas(eff),
     resultado |-> Entradas(eff) - Saidas(eff),
     by_month |-> FlowByMonth(Dated(eff)),
     by_category |-> byCategoryConta(Outflows(eff))]

\* No category is selected in the filter of the tab
renderConsolidadoTab(PC, ov) == ConsolidadoTab(getEffectiveContaTransactions(PC, ov))

renderAll(P, ov, filter) == recalc(P, ov, filter)

\* JSON.stringify of an override map: its entries in Object.keys order, the
\* index keys ascending, each key with the entry's fields
JSON_stringify(ov) ==
    [n \in 1..Cardinality(DOMAIN ov) |->
        [key |-> CHOOSE k \in DOMAIN ov : Cardinality({j \in DOMAIN ov : j < k}) = n - 1,
         value |-> ov[CHOOSE k \in DOMAIN ov : Cardinality({j \in DOMAIN ov : j < k}) = n - 1]]]

\* JSON.parse of a stored string
JSON_parse(s) ==
    [k \in {s[i].key : i \in 1..Len(s)} |->
        (CHOOSE e \in {s[i] : i \in 1..Len(s)} : e.key = k).value]

\* localStorage.setItem(key, value)
setItem(store, key, value) ==
    [k \in DOMAIN store \cup {key} |-> IF k = key THEN value ELSE store[k]]

\* var saved = localStorage.getItem(key); if (saved) ov = JSON.parse(saved)
LoadOverrides(store, key) ==
    IF key \in DOMAIN store /\ store[key] # <<>> THEN JSON_parse(store[key]) ELSE <<>>

----------------------------------------------------------------------------
(* The statement files the scripts read.                                   *)

Date(y, m, d) == [y |-> y, m |-> m, d |-> d]

Cell(mills) == [ok |-> TRUE, mills |-> mills]

\* A cell float() rejects
BadCell == [ok |-> FALSE, mills |-> 0]

CardRow(date, title, amount) == [date |-> date, title |-> title, amount |-> amount]

\* Rows of a credit-card export: purchases, a refund, a finance charge, a
\* row of the year before, a row whose amount is not a number
CardRows ==
    { CardRow(Date(2025, 3, 10), <<"Mercado">>, Cell(50000)),
      CardRow(Date(2025, 3, 10), <<"Juros de Rotativo">>, Cell(50000)),
      CardRow(Date(2025, 4, 2), <<" ", "uber">>, Cell(20040)),
      CardRow(Date(2025, 3, 10), <<"99">>, Cell(-4990)),
      CardRow(Date(2024, 12, 30), <<"Mercado">>, Cell(50000)),
      CardRow(Date(2025, 3, 12), <<"bazar">>, BadCell) }

\* dd/mm/yyyy
DataCell(d, m, y) ==
    <<[num |-> TRUE, v |-> d], [num |-> TRUE, v |-> m], [num |-> TRUE, v |-> y]>>

ContaRow(data, valor, desc) == [Data |-> data, Valor |-> valor, Descricao |-> desc]

\* Rows of a checking-account export: a transfer received, the card bill, a
\* debit purchase, a late fee, a row of the year before, a row with a bad date
ContaRows ==
    { ContaRow(DataCell(10, 3, 2025), Cell(1000000),
               <<"Transferência Recebida", " ", "-", " ", "JOAO", " ", "-", " ", "***">>),
      ContaRow(DataCell(11, 3, 2025), Cell(-100000), <<"Pagamento de fatura">>),
      ContaRow(DataCell(2, 4, 2025), Cell(-16000),
               <<"Compra no débito", " ", "-", " ", "Supermercado">>),
      ContaRow(DataCell(10, 3, 2025), Cell(-50000), <<"IOF de atraso">>),
      ContaRow(DataCell(30, 12, 2024), Cell(-16000), <<"TELEFONICA">>),
      ContaRow(<<[num |-> TRUE, v |-> 10], [num |-> FALSE, v |-> 0]>>, Cell(-7000),
               <<"Edison">>) }

\* Sequences of at most n elements of S
SeqsUpTo(S, n) == UNION {[1..k -> S] : k \in 0..n}

\* Amounts in mills of the purchases and of the outflows the aggregates are
\* computed from
AbcAmounts == {800000, 150000, 50000, 80040, 19960, 9000, 7000, 3125000, 375000}
AbcContaAmounts == {-9000, -7000, -100000, 16000}

\* One purchase per title, the first two in the same month
AbcTitles == <<<<"Mercado">>, <<"uber">>, <<"99">>, <<"bazar">>, <<"loja">>>>
AbcDates == <<Date(2025, 3, 10), Date(2025, 3, 12), Date(2025, 4, 2), Date(2025, 4, 2),
              Date(2025, 5, 7)>>

\* One transaction per description; the second is the card bill
AbcDescs == <<<<"Transferência enviada pelo Pix", " ", "-", " ", "Edison">>,
              <<"Pagamento de fatura">>,
              <<"TELEFONICA">>,
              <<"Pagamento de boleto efetuado", " ", "-", " ", "CONSORCIO">>,
              <<"Compra no débito", " ", "-", " ", "posto">>>>
AbcDatas == <<DataCell(10, 3, 2025), DataCell(12, 3, 2025), DataCell(2, 4, 2025),
              DataCell(2, 4, 2025), DataCell(7, 5, 2025)>>

\* Amounts in mills of the purchases of the months compared with the budget,
\* and the days they are made on: one purchase a month
OverAmounts == {3500000, 4000000, 3125000}
OverDates == <<Date(2025, 3, 10), Date(2025, 4, 2), Date(2025, 5, 7), Date(2025, 6, 9),
               Date(2025, 7, 1)>>

\* The card export with one row per title and per month
OverCardFile(cells) ==
    [k \in 1..Len(cells) |-> CardRow(OverDates[k], AbcTitles[k], cells[k])]

\* The card export with one row per title, cells[k] being the amount cell of
\* the k-th
AbcCardFile(cells) ==
    [k \in 1..Len(cells) |-> CardRow(AbcDates[k], AbcTitles[k], cells[k])]

\* The account export with one row per description
AbcContaFile(cells) ==
    [k \in 1..Len(cells) |-> ContaRow(AbcDatas[k], cells[k], AbcDescs[k])]

\* Amounts in mills of a month's inflows and outflows, and the days they are
\* booked on
FluxoAmounts == {1000000, -200000, -50000, 0}
FluxoDatas == <<DataCell(20, 1, 2025), DataCell(5, 1, 2025), DataCell(20, 1, 2025),
                DataCell(3, 2, 2025), DataCell(3, 2, 2025)>>

\* The account export with one row per description, booked on FluxoDatas
FluxoContaFile(cells) ==
    [k \in 1..Len(cells) |-> ContaRow(FluxoDatas[k], cells[k], AbcDescs[k])]

\* Words of the titles and descriptions given to the classifiers
TitleWords ==
    {" ", "Mercado", "posto", "uber", "pedágio", "estacionamentos", "academia",
     "panvel", "restaurante", "lanches", "padaria", "netflix", "barbearia",
     "rede farroupilha", "bazar", "loja", "99", "Juros de Rotativo"}

DescWords ==
    {" ", "-", "Transferência Recebida", "Transferência recebida pelo Pix",
     "Transferência enviada pelo Pix", "Rodrigo Ribas", "Resgate RDB",
     "Aplicação RDB", "Pagamento de fatura", "Receita Federal", "TELEFONICA",
     "Pagamento de boleto efetuado", "CONSORCIO", "Compra no débito", "***",
     "pagseguro", "nubank", "Edison", "posto", "Supermercado", "restaurante",
     "padaria", "JOAO"}

\* Entities given to categorize_conta
EntityTexts ==
    {<<>>, <<"Receita Federal">>, <<"tel3 telecom">>, <<"fornecedor">>, <<"CONSORCIO">>}

\* Amounts in mills given to categorize_conta
CallAmounts == {-16000, 0, 120}

\* The calls of the classifiers
ClassifierCalls ==
    {[fn |-> "categorize", title |-> t] : t \in Texts(TitleWords, MaxWords)}
    \cup {[fn |-> "categorize_conta", desc |-> c[1], amount |-> c[2], entity |-> c[3]] :
            c \in Texts(DescWords, MaxWords) \X CallAmounts \X EntityTexts}

----------------------------------------------------------------------------
(* State machine.                                                          *)

NotWritten == [written |-> FALSE]

NoCall == [fn |-> "none"]

NoReturn == [returned |-> FALSE]

Return(value) == [returned |-> TRUE, value |-> value]

\* No script has run and no page is open
NoRun ==
    /\ OUT_CSV = NotWritten
    /\ OUT_JSON = NotWritten
    /\ OUT_HTML = NotWritten
    /\ PAYLOAD = Null
    /\ PAYLOAD_CONTA = Null
    /\ overrides = <<>>
    /\ overridesConta = <<>>
    /\ filterCategoriesCartao = {}
    /\ filterCategoriesConta = {}
    /\ localStorage = <<>>
    /\ dom = Null
    /\ edits = 0

OneCardRow == <<CardRow(Date(2025, 3, 10), <<"Mercado">>, Cell(50000))>>

InitCartao ==
    /\ arg = NoCall
    /\ ret = NoReturn
    /\ Nubank_csvs \in SeqsUpTo(CardRows, MaxRows)
    /\ NU_csvs = <<>>
    /\ NoRun

InitConta ==
    /\ arg = NoCall
    /\ ret = NoReturn
    /\ Nubank_csvs = OneCardRow
    /\ NU_csvs \in SeqsUpTo(ContaRows, MaxRows)
    /\ NoRun

Init == InitCartao \/ InitConta

\* The file after a run: what the run wrote, or the file as it was when the
\* run ended before writing
Written(out, old) == IF out.written THEN out ELSE old

\* python scripts/consolidate_csv.py
ConsolidateCsv ==
    /\ OUT_CSV' = Written(consolidate_csv_main(Nubank_csvs), OUT_CSV)
    /\ UNCHANGED <<arg, ret, Nubank_csvs, NU_csvs, OUT_JSON, OUT_HTML, client>>

\* python scripts/consolidate_conta_corrente.py
ConsolidateConta ==
    /\ OUT_JSON' = Written(consolidate_conta_main(NU_csvs), OUT_JSON)
    /\ UNCHANGED <<arg, ret, Nubank_csvs, NU_csvs, OUT_CSV, OUT_HTML, client>>

\* python scripts/build_dashboard.py
BuildDashboard ==
    /\ OUT_HTML' = Written(build_dashboard_main(OUT_CSV, OUT_JSON), OUT_HTML)
    /\ UNCHANGED <<arg, ret, Nubank_csvs, NU_csvs, OUT_CSV, OUT_JSON, client>>

\* The browser loads index.html and runs its script to the end
OpenPage ==
    /\ OUT_HTML.written
    /\ PAYLOAD' = OUT_HTML.PAYLOAD
    /\ PAYLOAD_CONTA' = OUT_HTML.PAYLOAD_CONTA
    /\ overrides' = LoadOverrides(localStorage, OVERRIDES_KEY)
    /\ overridesConta' = LoadOverrides(localStorage, OVERRIDES_CONTA_KEY)
    /\ filterCategoriesCartao' = {}
    /\ filterCategoriesConta' = {}
    /\ dom' = [cartao |-> renderAll(PAYLOAD', overrides', {}),
               recommendations |-> PAYLOAD'.recommendations,
               conta |-> renderContaTab(PAYLOAD_CONTA', overridesConta', {}),
               consolidado |-> renderConsolidadoTab(PAYLOAD_CONTA', overridesConta')]
    /\ UNCHANGED <<arg, ret, files, localStorage, edits>>

\* The categories the user picks in the selects of the model
EditCategories == {"Mercado", "Outros"}

\* change of a .cat-select
CatSelectChange(idx, value) ==
    /\ PAYLOAD # Null
    /\ edits < MaxEdits
    /\ idx \in 0..(Len(PAYLOAD.expenses) - 1)
    /\ value \in PAYLOAD.master_categories
    /\ value # getRowCategory(PAYLOAD, overrides, idx)
    /\ overrides' = Upsert(overrides, idx, "category", value)
    /\ localStorage' = setItem(localStorage, OVERRIDES_KEY, JSON_stringify(overrides'))
    /\ dom' = [dom EXCEPT !.cartao = renderAll(PAYLOAD, overrides', filterCategoriesCartao)]
    /\ edits' = edits + 1
    /\ UNCHANGED <<arg, ret, files, PAYLOAD, PAYLOAD_CONTA, overridesConta,
                   filterCategoriesCartao, filterCategoriesConta>>

\* change of a .count-select
CountSelectChange(idx, value) ==
    /\ PAYLOAD # Null
    /\ edits < MaxEdits
    /\ idx \in 0..(Len(PAYLOAD.expenses) - 1)
    /\ value # getRowCount(overrides, idx)
    /\ overrides' = Upsert(overrides, idx, "count", value)
    /\ localStorage' = setItem(localStorage, OVERRIDES_KEY, JSON_stringify(overrides'))
    /\ dom' = [dom EXCEPT !.cartao = renderAll(PAYLOAD, overrides', filterCategoriesCartao)]
    /\ edits' = edits + 1
    /\ UNCHANGED <<arg, ret, files, PAYLOAD, PAYLOAD_CONTA, overridesConta,
                   filterCategoriesCartao, filterCategoriesConta>>

\* change of #filter-categories-cartao
FilterCategoriesCartaoChange(selected) ==
    /\ PAYLOAD # Null
    /\ edits < MaxEdits
    /\ selected \subseteq PAYLOAD.master_categories
    /\ selected # filterCategoriesCartao
    /\ filterCategoriesCartao' = selected
    /\ dom' = [dom EXCEPT !.cartao = renderAll(PAYLOAD, overrides, selected)]
    /\ edits' = edits + 1
    /\ UNCHANGED <<arg, ret, files, PAYLOAD, PAYLOAD_CONTA, overrides, overridesConta,
                   filterCategoriesConta, localStorage>>

\* change of a .conta-cat-select
ContaCatSelectChange(idx, value) ==
    /\ PAYLOAD_CONTA # Null
    /\ edits < MaxEdits
    /\ idx \in 0..(Len(PAYLOAD_CONTA.transactions) - 1)
    /\ value \in PAYLOAD_CONTA.master_categories
    /\ value # getRowCategoryConta(PAYLOAD_CONTA, overridesConta, idx)
    /\ overridesConta' = Upsert(overridesConta, idx, "category", value)
    /\ localStorage' = setItem(localStorage, OVERRIDES_CONTA_KEY,
                               JSON_stringify(overridesConta'))
    /\ dom' = [dom EXCEPT !.conta = renderContaTab(PAYLOAD_CONTA, overridesConta',
                                                   filterCategoriesConta)]
    /\ edits' = edits + 1
    /\ UNCHANGED <<arg, ret, files, PAYLOAD, PAYLOAD_CONTA, overrides,
                   filterCategoriesCartao, filterCategoriesConta>>

\* change of a .conta-count-select
ContaCountSelectChange(idx, value) ==
    /\ PAYLOAD_CONTA # Null
    /\ edits < MaxEdits
    /\ idx \in 0..(Len(PAYLOAD_CONTA.transactions) - 1)
    /\ value # getRowCountConta(overridesConta, idx)
    /\ overridesConta' = Upsert(overridesConta, idx, "count", value)
    /\ localStorage' = setItem(localStorage, OVERRIDES_CONTA_KEY,
                               JSON_stringify(overridesConta'))
    /\ dom' = [dom EXCEPT !.conta = renderContaTab(PAYLOAD_CONTA, overridesConta',
                                                   filterCategoriesConta)]
    /\ edits' = edits + 1
    /\ UNCHANGED <<arg, ret, files, PAYLOAD, PAYLOAD_CONTA, overrides,
                   filterCategoriesCartao, filterCategoriesConta>>

\* change of #filter-categories-conta
FilterCategoriesContaChange(selected) ==
    /\ PAYLOAD_CONTA # Null
    /\ edits < MaxEdits
    /\ selected \subseteq PAYLOAD_CONTA.master_categories
    /\ selected # filterCategoriesConta
    /\ filterCategoriesConta' = selected
    /\ dom' = [dom EXCEPT !.conta = renderContaTab(PAYLOAD_CONTA, overridesConta, selected)]
    /\ edits' = edits + 1
    /\ UNCHANGED <<arg, ret, files, PAYLOAD, PAYLOAD_CONTA, overrides, overridesConta,
                   filterCategoriesCartao, localStorage>>

Scripts == ConsolidateCsv \/ ConsolidateConta \/ BuildDashboard

CartaoEdit ==
    \/ \E idx \in 0..(MaxRows - 1), value \in EditCategories : CatSelectChange(idx, value)
    \/ \E idx \in 0..(MaxRows - 1), value \in BOOLEAN : CountSelectChange(idx, value)
    \/ \E selected \in SUBSET EditCategories : FilterCategoriesCartaoChange(selected)

ContaEdit ==
    \/ \E idx \in 0..(MaxRows - 1), value \in EditCategories : ContaCatSelectChange(idx, value)
    \/ \E idx \in 0..(MaxRows - 1), value \in BOOLEAN : ContaCountSelectChange(idx, value)
    \/ \E selected \in SUBSET EditCategories : FilterCategoriesContaChange(selected)

Next == Scripts \/ OpenPage \/ CartaoEdit \/ ContaEdit

Spec == Init /\ [][Next]_vars

----------------------------------------------------------------------------
(* The classifiers alone.                                                  *)

InitClassify ==
    /\ arg \in ClassifierCalls
    /\ ret = NoReturn
    /\ Nubank_csvs = <<>>
    /\ NU_csvs = <<>>
    /\ NoRun

CallCategorize ==
    /\ arg.fn = "categorize"
    /\ ~ret.returned
    /\ ret' = Return(categorize(arg.title))
    /\ UNCHANGED <<arg, files, client>>

CallCategorizeConta ==
    /\ arg.fn = "categorize_conta"
    /\ ~ret.returned
    /\ ret' = Return(categorize_conta(arg.desc, arg.amount, arg.entity))
    /\ UNCHANGED <<arg, files, client>>

NextClassify == CallCategorize \/ CallCategorizeConta

SpecClassify == InitClassify /\ [][NextClassify]_vars

----------------------------------------------------------------------------
(* The pipeline on statements chosen for their totals, without edits.      *)

InitAbcCartao ==
    /\ arg = NoCall
    /\ ret = NoReturn
    /\ \E cells \in [1..MaxTitles -> {Cell(a) : a \in AbcAmounts} \cup {BadCell}] :
          Nubank_csvs = AbcCardFile(cells)
    /\ NU_csvs = <<>>
    /\ NoRun

InitAbcConta ==
    /\ arg = NoCall
    /\ ret = NoReturn
    /\ Nubank_csvs = OneCardRow
    /\ \E cells \in [1..MaxTitles -> {Cell(a) : a \in AbcContaAmounts} \cup {BadCell}] :
          NU_csvs = AbcContaFile(cells)
    /\ NoRun

\* Inflows and outflows of the first weeks of the year
InitFluxoConta ==
    /\ arg = NoCall
    /\ ret = NoReturn
    /\ Nubank_csvs = OneCardRow
    /\ \E cells \in [1..MaxTitles -> {Cell(a) : a \in FluxoAmounts}] :
          NU_csvs = FluxoContaFile(cells)
    /\ NoRun

\* Purchases of a whole month's budget or more, one a month
InitOverCartao ==
    /\ arg = NoCall
    /\ ret = NoReturn
    /\ \E cells \in [1..(MaxTitles + 1) -> {Cell(a) : a \in OverAmounts}] :
          Nubank_csvs = OverCardFile(cells)
    /\ NU_csvs = <<>>
    /\ NoRun

InitAggregate == InitAbcCartao \/ InitAbcConta \/ InitFluxoConta \/ InitOverCartao

NextAggregate == Scripts \/ OpenPage

SpecAggregate == InitAggregate /\ [][NextAggregate]_vars


----------------------------------------------------------------------------
(* dedupe alone, applied to a loaded statement and then to its own result. *)

\* Rows of a card export that differ from the first in one column each:
\* spaces around the title, the date, the title, the amount
DupRows ==
    { CardRow(Date(2025, 3, 10), <<"Mercado">>, Cell(50000)),
      CardRow(Date(2025, 3, 10), <<" ", "Mercado">>, Cell(50000)),
      CardRow(Date(2025, 3, 11), <<"Mercado">>, Cell(50000)),
      CardRow(Date(2025, 3, 10), <<"uber">>, Cell(50000)),
      CardRow(Date(2025, 3, 10), <<"Mercado">>, Cell(20040)) }

InitDedupe ==
    /\ \E csvs \in SeqsUpTo(DupRows, MaxDupes) :
          arg = [fn |-> "dedupe", rows |-> load_all_csvs(csvs), pass |-> 1,
                 of |-> load_all_csvs(csvs)]
    /\ ret = NoReturn
    /\ Nubank_csvs = <<>>
    /\ NU_csvs = <<>>
    /\ NoRun

\* dedupe(rows)
CallDedupe ==
    /\ arg.fn = "dedupe"
    /\ ~ret.returned
    /\ ret' = Return(dedupe(arg.rows))
    /\ UNCHANGED <<arg, files, client>>

\* The result of the first call is the argument of the second
CallDedupeAgain ==
    /\ arg.fn = "dedupe"
    /\ arg.pass = 1
    /\ ret.returned
    /\ arg' = [fn |-> "dedupe", rows |-> ret.value, pass |-> 2, of |-> arg.rows]
    /\ ret' = NoReturn
    /\ UNCHANGED <<files, client>>

NextDedupe == CallDedupe \/ CallDedupeAgain

SpecDedupe == InitDedupe /\ [][NextDedupe]_vars

----------------------------------------------------------------------------
(* The consolidation scripts on statements with rows that cannot be read,  *)
(* with the way each run ends.                                             *)

\* The process ends with an uncaught exception
Raised(exception) == [returned |-> FALSE, raised |-> exception]

\* A purchase, a row whose amount is not a number, a row dated 2025-02-30, a
\* row with no date, a row of 0.004, a row whose title is a blank
ErrCardRows ==
    { CardRow(Date(2025, 3, 10), <<"Mercado">>, Cell(50000)),
      CardRow(Date(2025, 3, 12), <<"bazar">>, BadCell),
      CardRow(Date(2025, 2, 30), <<"uber">>, Cell(20040)),
      CardRow(NoDate, <<"loja">>, Cell(20040)),
      CardRow(Date(2025, 3, 14), <<"loja">>, Cell(4)),
      CardRow(Date(2025, 3, 15), <<" ">>, Cell(50000)) }

\* A debit purchase, a row whose amount is not a number, a row dated 10/xx,
\* a row dated 30/02/2025, a transfer received with no name before its
\* second hyphen
ErrContaRows ==
    { ContaRow(DataCell(10, 3, 2025), Cell(-16000),
               <<"Compra no débito", " ", "-", " ", "Supermercado">>),
      ContaRow(DataCell(12, 3, 2025), BadCell, <<"TELEFONICA">>),
      ContaRow(<<[num |-> TRUE, v |-> 10], [num |-> FALSE, v |-> 0]>>, Cell(-7000),
               <<"Edison">>),
      ContaRow(DataCell(30, 2, 2025), Cell(-5000), <<"TELEFONICA">>),
      ContaRow(DataCell(11, 3, 2025), Cell(1000000),
               <<"Transferência Recebida", " ", "-", " ", "-", " ", "JOAO">>) }

InitErrCartao ==
    /\ arg = NoCall
    /\ ret = NoReturn
    /\ Nubank_csvs \in SeqsUpTo(ErrCardRows, MaxRows)
    /\ NU_csvs = <<>>
    /\ NoRun

InitErrConta ==
    /\ arg = NoCall
    /\ ret = NoReturn
    /\ Nubank_csvs = OneCardRow
    /\ NU_csvs \in SeqsUpTo(ErrContaRows, MaxRows)
    /\ NoRun

InitErrors == InitErrCartao \/ InitErrConta

\* How main() of consolidate_csv.py ends: strptime raises ValueError on the
\* first expense whose date is not a date, otherwise main returns
consolidate_csv_exit(csvs) ==
    IF \E i \in 1..Len(Expenses(dedupe(load_all_csvs(csvs)))) :
          ~ValidDate(Expenses(dedupe(load_all_csvs(csvs)))[i].date)
    THEN Raised("ValueError")
    ELSE Return(0)

\* python scripts/consolidate_csv.py, with its exit
ConsolidateCsvExit ==
    /\ OUT_CSV' = Written(consolidate_csv_main(Nubank_csvs), OUT_CSV)
    /\ arg' = [fn |-> "consolidate_csv"]
    /\ ret' = consolidate_csv_exit(Nubank_csvs)
    /\ UNCHANGED <<Nubank_csvs, NU_csvs, OUT_JSON, OUT_HTML, client>>

\* python scripts/consolidate_conta_corrente.py, with its exit: parse_date
\* and parse_amount catch ValueError and main returns
ConsolidateContaExit ==
    /\ OUT_JSON' = Written(consolidate_conta_main(NU_csvs), OUT_JSON)
    /\ arg' = [fn |-> "consolidate_conta_corrente"]
    /\ ret' = Return(0)
    /\ UNCHANGED <<Nubank_csvs, NU_csvs, OUT_CSV, OUT_HTML, client>>

NextErrors == ConsolidateCsvExit \/ ConsolidateContaExit \/ BuildDashboard \/ OpenPage

SpecErrors == InitErrors /\ [][NextErrors]_vars

----------------------------------------------------------------------------
(* The pipeline run again as statements arrive, with edits on the page.    *)

\* Rows of the statements that arrive: the card's are a purchase of March, a
\* purchase of February and a purchase of the year after
RebuildCardRows ==
    { CardRow(Date(2025, 3, 10), <<"Mercado">>, Cell(50000)),
      CardRow(Date(2025, 2, 5), <<"bazar">>, Cell(80040)),
      CardRow(Date(2026, 5, 20), <<"uber">>, Cell(20040)) }

RebuildContaRows ==
    { ContaRow(DataCell(10, 3, 2025), Cell(-16000),
               <<"Compra no débito", " ", "-", " ", "Supermercado">>),
      ContaRow(DataCell(5, 2, 2025), Cell(-5000), <<"TELEFONICA">>) }

InitRebuild ==
    /\ arg = NoCall
    /\ ret = NoReturn
    /\ Nubank_csvs \in [1..1 -> RebuildCardRows]
    /\ NU_csvs = <<>>
    /\ NoRun

\* A statement with the row is saved in assets/ as a Nubank_*.csv that sorts
\* after the files already there
AddCardRow(row) ==
    /\ Len(Nubank_csvs) < MaxRows
    /\ \A k \in 1..Len(Nubank_csvs) : Nubank_csvs[k] # row
    /\ Nubank_csvs' = Append(Nubank_csvs, row)
    /\ UNCHANGED <<arg, ret, NU_csvs, OUT_CSV, OUT_JSON, OUT_HTML, client>>

\* A statement with the row is saved in assets/ as a NU_26372425_*.csv that
\* sorts after the files already there
AddContaRow(row) ==
    /\ Len(NU_csvs) < MaxRows
    /\ \A k \in 1..Len(NU_csvs) : NU_csvs[k] # row
    /\ NU_csvs' = Append(NU_csvs, row)
    /\ UNCHANGED <<arg, ret, Nubank_csvs, OUT_CSV, OUT_JSON, OUT_HTML, client>>

NextRebuild ==
    \/ \E row \in RebuildCardRows : AddCardRow(row)
    \/ \E row \in RebuildContaRows : AddContaRow(row)
    \/ Scripts
    \/ OpenPage
    \/ \E idx \in 0..(MaxRows - 1), value \in BOOLEAN : CountSelectChange(idx, value)
    \/ \E idx \in 0..(MaxRows - 1), value \in BOOLEAN : ContaCountSelectChange(idx, value)

SpecRebuild == InitRebuild /\ [][NextRebuild]_vars

----------------------------------------------------------------------------
(* The pipeline on statements that reach into the year after.              *)

\* Purchases of March 2025, of August 2025 and of May 2026, and a finance
\* charge of August 2025
WindowCardRows ==
    { CardRow(Date(2025, 3, 10), <<"Mercado">>, Cell(50000)),
      CardRow(Date(2025, 8, 1), <<"uber">>, Cell(20040)),
      CardRow(Date(2026, 5, 20), <<"bazar">>, Cell(80040)),
      CardRow(Date(2025, 8, 1), <<"Juros de Rotativo">>, Cell(50000)) }

InitWindow ==
    /\ arg = NoCall
    /\ ret = NoReturn
    /\ Nubank_csvs \in SeqsUpTo(WindowCardRows, MaxTitles)
    /\ NU_csvs = <<>>
    /\ NoRun

NextWindow == ConsolidateCsv \/ BuildDashboard \/ OpenPage

SpecWindow == InitWindow /\ [][NextWindow]_vars
----------------------------------------------------------------------------
(* Properties.                                                             *)

\* The keywords the top-level rules of categorize test
CategorizeKeywords ==
    {"supermerc", "mercado", "hortifruti", "mercearia", "atacad", "fruteira",
     "carrefour", "posto", "gasbom", "gasolina", "abastece", "uber", "via sul",
     "concessionaria", "concessionária", "pedágio", "estacionamento", "academia",
     "prime fit", "farmacia", "farmácia", "panvel", "sao joao", "são joão",
     "ricky", "xis", "lanches", "restaurante", "pizzaria", "buffon", "padaria",
     "lanchonete", "hamburguer", "minhocaburger", "rancho", "a lenha",
     "cia do sabor", "cremolatto", "delivery", "google", "youtube", "netflix",
     "assinatura", "juliocesar", "gemeascel", "conta vivo", "contavivo",
     "barbeiro", "xbeleza", "beleza", "barbearia", "rede farroupilha",
     "estacionamentos", "bazar", "havan", "lojas americanas", "leroy", "amazon"}

\* The keywords the top-level rules of categorize_conta test in the
\* description of an inflow, of an outflow, and in the entity of an outflow
EntradaKeywords ==
    {"transferência recebida", "transferência recebida pelo pix", "resgate rdb"}

SaidaKeywords ==
    {"pagamento de fatura", "receita federal", "ipva", "sefaz", "telefonica", "tel3",
     "cia estadual de distribui", "cia riograndense de saneamento", "aplicação rdb",
     "aplicacao rdb", "pagamento de boleto", "compra no débito", "compra no debito",
     "transferência enviada pelo pix"}

SaidaEntityKeywords == {"receita federal", "tel3 telecom"}

\* The call in arg matches no rule of its classifier
NoRuleMatches ==
    \/ /\ arg.fn = "categorize"
       /\ ~any(CategorizeKeywords, lower(arg.title))
    \/ /\ arg.fn = "categorize_conta"
       /\ arg.amount > 0
       /\ ~any(EntradaKeywords, lower(arg.desc))
    \/ /\ arg.fn = "categorize_conta"
       /\ ~(arg.amount > 0)
       /\ ~any(SaidaKeywords, lower(arg.desc))
       /\ ~any(SaidaEntityKeywords, lower(arg.entity))

\* C1: categorize_conta returns a category of the income subset for every
\* input with amount > 0 and a category of the expense subset for every input
\* with amount < 0, whatever the description and the entity are, and the two
\* subsets share no category.
C1_SignSelectsSubset ==
    /\ MASTER_CATEGORIES_ENTRADA \cap MASTER_CATEGORIES_DESPESA = {}
    /\ (arg.fn = "categorize_conta" /\ ret.returned) =>
          /\ arg.amount > 0 => ret.value \in MASTER_CATEGORIES_ENTRADA
          /\ arg.amount < 0 => ret.value \in MASTER_CATEGORIES_DESPESA

\* An inflow whose description names the card bill, an outflow rule, has been
\* given an income category
C1_Witness ==
    /\ arg.fn = "categorize_conta"
    /\ ret.returned
    /\ arg.amount > 0
    /\ In("pagamento de fatura", lower(arg.desc))
    /\ ret.value = "Outras entradas"

\* C2: both classifiers return, for every input, one label that is a member
\* of MASTER_CATEGORIES; an input that matches no rule gets "Outros", or
\* "Outras entradas" when it is an inflow.
C2_ClosedOverTaxonomy ==
    /\ (arg.fn # "none" /\ ~ret.returned) => ENABLED NextClassify
    /\ ret.returned =>
          /\ ret.value \in MASTER_CATEGORIES
          /\ NoRuleMatches =>
                ret.value = IF arg.fn = "categorize_conta" /\ arg.amount > 0
                            THEN "Outras entradas" ELSE "Outros"

\* A title of two words that matches no rule has been given "Outros"
C2_Witness ==
    /\ arg.fn = "categorize"
    /\ ret.returned
    /\ Len(arg.title) = 2
    /\ NoRuleMatches
    /\ ret.value = "Outros"

\* sum of rows[i + 1].amount over the indices (from 0) in I
RECURSIVE Amounts(_, _)
Amounts(rows, I) ==
    IF I = {} THEN 0
    ELSE LET i == CHOOSE x \in I : TRUE IN rows[i + 1].amount + Amounts(rows, I \ {i})

\* The category of record i of rows under the override map ov
EffectiveCategory(rows, ov, i) ==
    IF HasCategory(ov, i) THEN ov[i].category ELSE rows[i + 1].category

\* The indices (from 0) of the records of rows an aggregate may count: the
\* override of the record does not hold count = false and its category passes
\* the filter
Included(rows, ov, filter) ==
    {i \in 0..(Len(rows) - 1) :
        /\ ~(HasCount(ov, i) /\ ~ov[i].count)
        /\ filter = {} \/ EffectiveCategory(rows, ov, i) \in filter}

\* The entity of transaction i of rows, "Outros" when it has none
EntityName(rows, i) ==
    IF rows[i + 1].entity # <<>> THEN rows[i + 1].entity ELSE <<"Outros">>

\* The entries of the list by, keyed by field, are the keys in K, one entry each
KeyedBy(by, field, K) ==
    /\ {by[k][field] : k \in 1..Len(by)} = K
    /\ Len(by) = Cardinality(K)

\* The card aggregates R are computed from the records of rows at the indices
\* in I and from no other record
CartaoFrom(R, rows, ov, I) ==
    /\ R.count = Cardinality(I)
    /\ R.total = Amounts(rows, I)
    /\ KeyedBy(R.by_month, "month", {Month(rows[i + 1].date) : i \in I})
    /\ R.avg_monthly = JsRound(R.total, IF I = {} THEN 1 ELSE Len(R.by_month))
    /\ R.avg_weekly = JsRound(R.total, 52)
    /\ \A k \in 1..Len(R.by_month) :
          R.by_month[k].total =
              Amounts(rows, {i \in I : Month(rows[i + 1].date) = R.by_month[k].month})
    /\ KeyedBy(R.by_title, "title", {rows[i + 1].title : i \in I})
    /\ \A k \in 1..Len(R.by_title) :
          R.by_title[k].total =
              Amounts(rows, {i \in I : rows[i + 1].title = R.by_title[k].title})
    /\ KeyedBy(R.by_category, "category", {EffectiveCategory(rows, ov, i) : i \in I})
    /\ \A k \in 1..Len(R.by_category) :
          R.by_category[k].total =
              Amounts(rows, {i \in I : EffectiveCategory(rows, ov, i)
                                          = R.by_category[k].category})
    /\ \A k \in 1..Len(R.over_budget_months) :
          R.over_budget_months[k].total =
              Amounts(rows, {i \in I : Month(rows[i + 1].date)
                                          = R.over_budget_months[k].month})

\* The account aggregates R are computed from the transactions of rows at the
\* indices in I and from no other transaction
ContaFrom(R, rows, ov, I) ==
    /\ R.count = Cardinality(I)
    /\ R.entradas_total = Amounts(rows, {i \in I : rows[i + 1].amount > 0})
    /\ R.saidas_total = -Amounts(rows, {i \in I : rows[i + 1].amount < 0})
    /\ R.saldo = Amounts(rows, I)
    /\ KeyedBy(R.by_month, "month",
               {Month(rows[i + 1].date) : i \in {j \in I : rows[j + 1].date # NoDate}})
    /\ \A k \in 1..Len(R.by_month) :
          /\ R.by_month[k].saldo =
                Amounts(rows, {i \in I : /\ rows[i + 1].date # NoDate
                                         /\ Month(rows[i + 1].date) = R.by_month[k].month})
          /\ R.by_month[k].saldo = R.by_month[k].entradas - R.by_month[k].saidas
          /\ R.by_month[k].entradas =
                Amounts(rows, {i \in I : /\ rows[i + 1].date # NoDate
                                         /\ Month(rows[i + 1].date) = R.by_month[k].month
                                         /\ rows[i + 1].amount > 0})
    /\ KeyedBy(R.by_entity, "title",
               {EntityName(rows, i) : i \in {j \in I : rows[j + 1].amount < 0}})
    /\ \A k \in 1..Len(R.by_entity) :
          R.by_entity[k].total =
              -Amounts(rows, {i \in I : /\ rows[i + 1].amount < 0
                                        /\ EntityName(rows, i) = R.by_entity[k].title})
    /\ KeyedBy(R.by_category, "category",
               {EffectiveCategory(rows, ov, i) : i \in {j \in I : rows[j + 1].amount < 0}})
    /\ \A k \in 1..Len(R.by_category) :
          R.by_category[k].total =
              -Amounts(rows, {i \in I : /\ rows[i + 1].amount < 0
                                        /\ EffectiveCategory(rows, ov, i)
                                              = R.by_category[k].category})

\* C3: a record whose override holds count = false is absent from every
\* aggregate the page recomputes, for any override map and any category
\* filter and whatever its category is: count, total, the averages, by_month,
\* by_title, by_category and over_budget_months of the card tab, and count,
\* entradas, saidas, saldo, by-month, by-entity and by-category of the
\* account tab, are those of the records that are left.
C3_CountFalseIsAbsent ==
    /\ PAYLOAD # Null =>
          CartaoFrom(dom.cartao, PAYLOAD.expenses, overrides,
                     Included(PAYLOAD.expenses, overrides, filterCategoriesCartao))
    /\ PAYLOAD_CONTA # Null =>
          ContaFrom(dom.conta, PAYLOAD_CONTA.transactions, overridesConta,
                    Included(PAYLOAD_CONTA.transactions, overridesConta,
                             filterCategoriesConta))

\* Of two card records, one has been given a category and count = false, and
\* the tab counts the other alone
C3_Witness ==
    /\ PAYLOAD # Null
    /\ Len(PAYLOAD.expenses) = 2
    /\ \E i \in DOMAIN overrides :
          /\ HasCount(overrides, i) /\ ~overrides[i].count
          /\ HasCategory(overrides, i)
          /\ overrides[i].category # PAYLOAD.expenses[i + 1].category
    /\ dom.cartao.count = 1
    /\ Len(dom.cartao.by_category) = 1

\* The total the list by_category holds for category c, 0 when it holds no
\* entry for it
CategoryTotal(by_category, c) ==
    IF \E k \in 1..Len(by_category) : by_category[k].category = c
    THEN by_category[CHOOSE k \in 1..Len(by_category) : by_category[k].category = c].total
    ELSE 0

\* by_category holds an entry for category c
Listed(by_category, c) == \E k \in 1..Len(by_category) : by_category[k].category = c

\* A step gives the counted card record i the category c2, which it did not
\* have, while no category filter is active
Reassigns(i, c2) ==
    /\ PAYLOAD' = PAYLOAD
    /\ filterCategoriesCartao = {}
    /\ filterCategoriesCartao' = {}
    /\ getRowCount(overrides, i)
    /\ c2 # EffectiveCategory(PAYLOAD.expenses, overrides, i)
    /\ DOMAIN overrides' = DOMAIN overrides \cup {i}
    /\ \A j \in DOMAIN overrides : j # i => overrides'[j] = overrides[j]
    /\ HasCategory(overrides', i)
    /\ overrides'[i].category = c2
    /\ HasCount(overrides', i) = HasCount(overrides, i)
    /\ HasCount(overrides, i) => overrides'[i].count = overrides[i].count

\* The amount a of record i has moved from category c1 to category c2 in
\* the aggregates of the card tab, and nothing else has changed
Moves(i, a, c1, c2) ==
    /\ CategoryTotal(dom'.cartao.by_category, c1)
          = CategoryTotal(dom.cartao.by_category, c1) - a
    /\ Listed(dom'.cartao.by_category, c1) <=>
          \E j \in Included(PAYLOAD.expenses, overrides, {}) \ {i} :
              EffectiveCategory(PAYLOAD.expenses, overrides, j) = c1
    /\ CategoryTotal(dom'.cartao.by_category, c2)
          = CategoryTotal(dom.cartao.by_category, c2) + a
    /\ Listed(dom'.cartao.by_category, c2)
    /\ \A c \in MASTER_CATEGORIES \ {c1, c2} :
          /\ CategoryTotal(dom'.cartao.by_category, c)
                = CategoryTotal(dom.cartao.by_category, c)
          /\ Listed(dom'.cartao.by_category, c) <=> Listed(dom.cartao.by_category, c)
    /\ \A k \in 1..Len(dom'.cartao.by_category) :
          dom'.cartao.by_category[k].category \in MASTER_CATEGORIES
    /\ dom'.cartao.total = dom.cartao.total
    /\ dom'.cartao.count = dom.cartao.count
    /\ dom'.cartao.by_month = dom.cartao.by_month

\* C4: giving a counted card record the category c2 in place of its category
\* c1, with no category filter active, takes the amount of the record from
\* the by_category total of c1 (whose entry goes when no record is left in
\* it), adds it to the total of c2, and changes no other category total, nor
\* the grand total, the count or by_month.
C4_ReassignMovesAmount ==
    [][PAYLOAD # Null =>
          \A i \in 0..(Len(PAYLOAD.expenses) - 1), c2 \in MASTER_CATEGORIES :
              Reassigns(i, c2) =>
                  Moves(i, PAYLOAD.expenses[i + 1].amount,
                        EffectiveCategory(PAYLOAD.expenses, overrides, i), c2)]_vars

\* The only record of a category has been given another category: the entry
\* of its first category is gone and the new one holds its amount
C4_Witness ==
    /\ PAYLOAD # Null
    /\ filterCategoriesCartao = {}
    /\ \E i \in DOMAIN overrides :
          /\ HasCategory(overrides, i)
          /\ ~HasCount(overrides, i)
          /\ overrides[i].category # PAYLOAD.expenses[i + 1].category
          /\ ~Listed(dom.cartao.by_category, PAYLOAD.expenses[i + 1].category)
          /\ CategoryTotal(dom.cartao.by_category, overrides[i].category)
                >= PAYLOAD.expenses[i + 1].amount
    /\ dom.cartao.total = PAYLOAD.total

\* title, total, cum_pct and abc of the entries of a by_title list
TitleValues(by_title) ==
    [k \in 1..Len(by_title) |->
        [title |-> by_title[k].title, total |-> by_title[k].total,
         cum_pct |-> by_title[k].cum_pct, abc |-> by_title[k].abc]]

\* C5: with an empty override map and no active filter, what recalc
\* recomputes for the card tab (total, count, avg_monthly, avg_weekly,
\* by_month, by_title with its classes, by_category, over_budget_months) has
\* the values and the entry order of the aggregates main() has embedded in
\* the payload.
C5_RecalcIsBaseline ==
    (PAYLOAD # Null /\ overrides = <<>> /\ filterCategoriesCartao = {}) =>
        /\ dom.cartao.total = PAYLOAD.total
        /\ dom.cartao.count = PAYLOAD.count
        /\ dom.cartao.avg_monthly = PAYLOAD.avg_monthly
        /\ dom.cartao.avg_weekly = PAYLOAD.avg_weekly
        /\ dom.cartao.by_month = PAYLOAD.by_month
        /\ TitleValues(dom.cartao.by_title) = TitleValues(PAYLOAD.by_title)
        /\ dom.cartao.by_category = PAYLOAD.by_category
        /\ dom.cartao.over_budget_months = PAYLOAD.over_budget_months

\* The page is open on a payload of two titles of 9.00 and 7.00, without
\* override or filter
C5_Witness ==
    /\ PAYLOAD # Null
    /\ overrides = <<>>
    /\ filterCategoriesCartao = {}
    /\ Len(PAYLOAD.by_title) = 2
    /\ PAYLOAD.by_title[1].total = 900
    /\ PAYLOAD.by_title[2].total = 700

\* C6: with an empty override map and no active filter, by_month,
\* by_category and by_entity of the payload build_conta_payload has built
\* are the ones renderContaTab recomputes from the transactions of the
\* payload, whatever total_cartao is.
C6_ContaTabIsPayload ==
    (PAYLOAD_CONTA # Null /\ overridesConta = <<>> /\ filterCategoriesConta = {}) =>
        /\ dom.conta.by_month = PAYLOAD_CONTA.by_month
        /\ dom.conta.by_category = PAYLOAD_CONTA.by_category
        /\ dom.conta.by_entity = PAYLOAD_CONTA.by_entity

\* The page is open on an account payload that holds a payment of the card
\* bill, without override or filter
C6_Witness ==
    /\ PAYLOAD_CONTA # Null
    /\ overridesConta = <<>>
    /\ filterCategoriesConta = {}
    /\ Listed(PAYLOAD_CONTA.by_category, "Pagamento cartão")

\* over holds one entry for each month of by_month whose total is above b
\* and for no other month, in the ascending order of the months, each entry
\* with the total of its month and that total less b
OverBudgetRule(by_month, over, b) ==
    /\ \A i \in 1..Len(by_month) :
          (\E j \in 1..Len(over) : over[j].month = by_month[i].month)
              <=> by_month[i].total > b
    /\ \A j \in 1..Len(over) :
          \E i \in 1..Len(by_month) :
              /\ by_month[i].month = over[j].month
              /\ over[j].total = by_month[i].total
              /\ over[j].over_amount = by_month[i].total - b
    /\ \A j \in 1..Len(over), k \in 1..Len(over) :
          j < k => MonthLess(over[j].month, over[k].month)
    /\ \A i \in 1..Len(by_month), k \in 1..Len(by_month) :
          i < k => MonthLess(by_month[i].month, by_month[k].month)

\* C7: over_budget_months lists a month if and only if its total is strictly
\* above BUDGET_MONTHLY, 3125.00, in the ascending month order of by_month,
\* each entry with over_amount = total - BUDGET_MONTHLY (375.00 for a total
\* of 3500.00); the list recalc computes in the page obeys the same rule.
C7_OverBudgetIsStrict ==
    /\ BUDGET_MONTHLY = 312500
    /\ OUT_HTML.written =>
          /\ OUT_HTML.PAYLOAD.budget_monthly = BUDGET_MONTHLY
          /\ OverBudgetRule(OUT_HTML.PAYLOAD.by_month,
                            OUT_HTML.PAYLOAD.over_budget_months, BUDGET_MONTHLY)
          /\ \A j \in 1..Len(OUT_HTML.PAYLOAD.over_budget_months) :
                OUT_HTML.PAYLOAD.over_budget_months[j].total = 350000
                    => OUT_HTML.PAYLOAD.over_budget_months[j].over_amount = 37500
    /\ PAYLOAD # Null =>
          OverBudgetRule(dom.cartao.by_month, dom.cartao.over_budget_months,
                         BUDGET_MONTHLY)

\* A month of 3500.00 is listed with 375.00 and a month of 3125.00 is not
\* listed, in the payload and in the page
C7_Witness ==
    /\ OUT_HTML.written
    /\ PAYLOAD = OUT_HTML.PAYLOAD
    /\ Len(PAYLOAD.by_month) = 2
    /\ PAYLOAD.by_month[1].total = 350000
    /\ PAYLOAD.by_month[2].total = 312500
    /\ PAYLOAD.over_budget_months =
          <<[month |-> <<2025, 3>>, total |-> 350000, over_amount |-> 37500]>>
    /\ dom.cartao.over_budget_months = PAYLOAD.over_budget_months

\* The class the thresholds give to the cum_pct an entry carries (in tenths
\* of a percent)
ClassOfEmitted(e) ==
    IF e.cum_pct <= 800 THEN "A" ELSE IF e.cum_pct <= 950 THEN "B" ELSE "C"

\* Every entry of the list carries the class of the cum_pct it carries
ClassesFollowEmitted(list) ==
    \A k \in 1..Len(list) : list[k].abc = ClassOfEmitted(list[k])

\* C8: in every list build_abc returns for a total > 0, and in the list
\* aggregateByTitle computes in the page, the class of an entity is A exactly
\* when the cum_pct it carries is <= 80, B exactly when it is > 80 and <= 95,
\* and C otherwise.
C8_ClassFollowsEmittedPct ==
    /\ OUT_HTML.written =>
          /\ ClassesFollowEmitted(OUT_HTML.PAYLOAD.by_title)
          /\ OUT_HTML.PAYLOAD_CONTA # Null =>
                ClassesFollowEmitted(OUT_HTML.PAYLOAD_CONTA.by_entity)
    /\ PAYLOAD # Null => ClassesFollowEmitted(dom.cartao.by_title)

\* Entities of 800.00, 150.00 and 50.00 have been given (80.0, A), (95.0, B)
\* and (100.0, C), by build_abc and in the page
C8_Witness ==
    /\ OUT_HTML.written
    /\ PAYLOAD = OUT_HTML.PAYLOAD
    /\ TitleValues(PAYLOAD.by_title) =
          <<[title |-> <<"Mercado">>, total |-> 80000, cum_pct |-> 800, abc |-> "A"],
            [title |-> <<"uber">>, total |-> 15000, cum_pct |-> 950, abc |-> "B"],
            [title |-> <<"99">>, total |-> 5000, cum_pct |-> 1000, abc |-> "C"]>>
    /\ dom.cartao.by_title = TitleValues(PAYLOAD.by_title)

\* C9: the by_title list main() embeds, aggregate_by_title followed by
\* build_abc(by_title, total) on a non-empty record list of positive total,
\* is sorted by total in descending order, its cum_pct never decreases along
\* that order, and the cum_pct of its last entity is 100.0.
C9_AbcListIsCumulative ==
    (OUT_HTML.written /\ OUT_HTML.PAYLOAD.expenses # <<>> /\ OUT_HTML.PAYLOAD.total > 0) =>
        /\ OUT_HTML.PAYLOAD.by_title # <<>>
        /\ \A k \in 1..(Len(OUT_HTML.PAYLOAD.by_title) - 1) :
              /\ OUT_HTML.PAYLOAD.by_title[k].total
                    >= OUT_HTML.PAYLOAD.by_title[k + 1].total
              /\ OUT_HTML.PAYLOAD.by_title[k].cum_pct
                    <= OUT_HTML.PAYLOAD.by_title[k + 1].cum_pct
        /\ OUT_HTML.PAYLOAD.by_title[Len(OUT_HTML.PAYLOAD.by_title)].cum_pct = 1000

\* Three titles whose totals rise along the statement have been written in
\* descending order
C9_Witness ==
    /\ OUT_HTML.written
    /\ Len(OUT_HTML.PAYLOAD.expenses) = 3
    /\ OUT_HTML.PAYLOAD.expenses[1].amount < OUT_HTML.PAYLOAD.expenses[2].amount
    /\ OUT_HTML.PAYLOAD.expenses[2].amount < OUT_HTML.PAYLOAD.expenses[3].amount
    /\ Len(OUT_HTML.PAYLOAD.by_title) = 3
    /\ OUT_HTML.PAYLOAD.by_title[1].title = OUT_HTML.PAYLOAD.expenses[3].title
    /\ OUT_HTML.PAYLOAD.by_title[3].cum_pct = 1000

\* The text holds a marker of the BLACKLIST, whatever the case of its letters
HasMarker(text) ==
    \E i \in 1..Len(text) : KeywordsIn(Lower(text[i])) \cap BLACKLIST # {}

\* The rows of a card file whose title holds no marker
UnmarkedTitles(rows) == Pick(rows, {i \in 1..Len(rows) : ~HasMarker(rows[i].title)})

\* The rows of an account file whose description holds no marker
UnmarkedDescriptions(rows) ==
    Pick(rows, {i \in 1..Len(rows) : ~HasMarker(rows[i].Descricao)})

\* C10: a row whose title (card) or description (account) holds a BLACKLIST
\* marker, in any case of its letters, is in no record list
\* load_2025_expenses or load_all_conta_corrente builds: the records, their
\* order and indices, count / transaction_count and every total are those
\* of the files without the marked rows.
C10_BlacklistedRowsAreInvisible ==
    /\ OUT_HTML.written =>
          /\ \A i \in 1..Len(OUT_HTML.PAYLOAD.expenses) :
                ~HasMarker(OUT_HTML.PAYLOAD.expenses[i].title)
          /\ OUT_HTML.PAYLOAD.expenses = load_2025_expenses(UnmarkedTitles(OUT_CSV.rows))
          /\ OUT_HTML.PAYLOAD = build_payload(load_2025_expenses(UnmarkedTitles(OUT_CSV.rows)))
    /\ OUT_JSON.written =>
          /\ \A i \in 1..Len(OUT_JSON.transactions) :
                ~HasMarker(OUT_JSON.transactions[i].description)
          /\ OUT_JSON = consolidate_conta_main(UnmarkedDescriptions(NU_csvs))

\* The statement holds a purchase of 50.00 and "Juros de Rotativo" of 50.00,
\* both on 2025-03-10, and the payload holds one record and 50.00 for 2025-03
C10_Witness ==
    /\ OUT_HTML.written
    /\ \E i \in 1..Len(Nubank_csvs) :
          /\ Nubank_csvs[i].title = <<"Juros de Rotativo">>
          /\ Nubank_csvs[i].date = Date(2025, 3, 10)
          /\ Nubank_csvs[i].amount = Cell(50000)
    /\ OUT_HTML.PAYLOAD.count = 1
    /\ OUT_HTML.PAYLOAD.by_month = <<[month |-> <<2025, 3>>, total |-> 5000]>>


----------------------------------------------------------------------------
(* Deduplication.                                                          *)

\* C11: dedupe is idempotent: applied to its own result it returns that
\* result unchanged, dedupe(dedupe(X)) = dedupe(X).
C11_DedupeIsIdempotent ==
    (arg.fn = "dedupe" /\ arg.pass = 2 /\ ret.returned) => ret.value = arg.rows

\* Three rows, two of them with the same key, became two rows in the first
\* pass and stayed two in the second
C11_Witness ==
    /\ arg.fn = "dedupe" /\ arg.pass = 2 /\ ret.returned
    /\ Len(arg.of) = 3
    /\ Len(arg.rows) = 2
    /\ Len(ret.value) = 2

\* The key of a loaded row
RowKey(r) == <<r.date, r.title, r.amount>>

\* f maps each row of Y to the first row of X with its key, keeping the order
FirstOccurrences(X, Y, f) ==
    /\ \A k \in 1..Len(Y) : Y[k] = X[f[k]]
    /\ \A k \in 1..Len(Y) : \A j \in 1..(f[k] - 1) : RowKey(X[j]) # RowKey(X[f[k]])
    /\ \A k \in 1..Len(Y), l \in 1..Len(Y) : k < l => f[k] < f[l]

\* C12: dedupe(X) is the subsequence of X made of the first row of each
\* distinct (date, title, amount): no two rows of the result have the same
\* key, every key of X is in the result, the rows are in the order of X and
\* each is a row of X as it was.
C12_DedupeKeepsFirstOccurrences ==
    (arg.fn = "dedupe" /\ arg.pass = 1 /\ ret.returned) =>
        /\ \A k \in 1..Len(ret.value), l \in 1..Len(ret.value) :
              k # l => RowKey(ret.value[k]) # RowKey(ret.value[l])
        /\ \A i \in 1..Len(arg.rows) :
              \E k \in 1..Len(ret.value) : RowKey(ret.value[k]) = RowKey(arg.rows[i])
        /\ \E f \in [1..Len(ret.value) -> 1..Len(arg.rows)] :
              FirstOccurrences(arg.rows, ret.value, f)

\* Mercado 50.00, Mercado 20.04, Mercado 50.00 and uber 50.00 of one day gave
\* Mercado 50.00, Mercado 20.04, uber 50.00
C12_Witness ==
    /\ arg.fn = "dedupe" /\ arg.pass = 1 /\ ret.returned
    /\ arg.rows = <<[date |-> Date(2025, 3, 10), title |-> <<"Mercado">>, amount |-> 50000],
                    [date |-> Date(2025, 3, 10), title |-> <<"Mercado">>, amount |-> 20040],
                    [date |-> Date(2025, 3, 10), title |-> <<"Mercado">>, amount |-> 50000],
                    [date |-> Date(2025, 3, 10), title |-> <<"uber">>, amount |-> 50000]>>
    /\ ret.value = <<[date |-> Date(2025, 3, 10), title |-> <<"Mercado">>, amount |-> 50000],
                     [date |-> Date(2025, 3, 10), title |-> <<"Mercado">>, amount |-> 20040],
                     [date |-> Date(2025, 3, 10), title |-> <<"uber">>, amount |-> 50000]>>

\* No two records of the list have the same (date, text, amount)
NoSharedTuple(records, text) ==
    \A i \in 1..Len(records), j \in 1..Len(records) :
        i # j => <<records[i].date, records[i][text], records[i].amount>>
                 # <<records[j].date, records[j][text], records[j].amount>>

\* C13: the record list each pipeline hands to aggregation holds no two
\* records with the same (date, title or description, amount): identical
\* source rows collapse to one record in the card record list and in the
\* account record list.
C13_NoTwoRecordsShareATuple ==
    /\ OUT_HTML.written => NoSharedTuple(OUT_HTML.PAYLOAD.expenses, "title")
    /\ OUT_JSON.written => NoSharedTuple(OUT_JSON.transactions, "description")

\* The account statement holds the same row twice and the file written
\* holds two equal transactions
C13_Witness ==
    /\ OUT_JSON.written
    /\ Len(NU_csvs) = 2
    /\ NU_csvs[1] = NU_csvs[2]
    /\ Len(OUT_JSON.transactions) = 2
    /\ OUT_JSON.transactions[1] = OUT_JSON.transactions[2]

----------------------------------------------------------------------------
(* The monthly flow of the account.                                        *)

\* The indices (from 0) of the records of rows booked in month mo
InMonth(rows, mo) ==
    {i \in 0..(Len(rows) - 1) : rows[i + 1].date # NoDate /\ Month(rows[i + 1].date) = mo}

\* by_month is the flow of rows: one entry per month that has a record, the
\* months ascending, entradas the sum of the amounts > 0, saidas the sum of
\* the absolute values of the amounts < 0, saldo their difference
MonthlyFlowOf(by_month, rows) ==
    /\ KeyedBy(by_month, "month",
               {Month(rows[i].date) : i \in {j \in 1..Len(rows) : rows[j].date # NoDate}})
    /\ \A k \in 1..(Len(by_month) - 1) : MonthLess(by_month[k].month, by_month[k + 1].month)
    /\ \A k \in 1..Len(by_month) :
          /\ by_month[k].entradas =
                Amounts(rows, {i \in InMonth(rows, by_month[k].month) : rows[i + 1].amount > 0})
          /\ by_month[k].saidas =
                -Amounts(rows, {i \in InMonth(rows, by_month[k].month) : rows[i + 1].amount < 0})
          /\ by_month[k].saldo = by_month[k].entradas - by_month[k].saidas

\* C14: the by_month of build_conta_payload, and the one renderContaTab
\* recomputes from the counted transactions, has for every month with
\* transactions entradas = sum of the amounts > 0, saidas = sum of the
\* absolute values of the amounts < 0 and saldo = entradas - saidas, the
\* months in ascending order.
C14_MonthlyFlow ==
    /\ (OUT_HTML.written /\ OUT_HTML.PAYLOAD_CONTA # Null) =>
          MonthlyFlowOf(OUT_HTML.PAYLOAD_CONTA.by_month, OUT_HTML.PAYLOAD_CONTA.transactions)
    /\ (dom # Null /\ PAYLOAD_CONTA # Null) =>
          MonthlyFlowOf(dom.conta.by_month, PAYLOAD_CONTA.transactions)

\* 1000.00, -200.00 and -50.00 booked in 2025-01 give entradas 1000.00,
\* saidas 250.00, saldo 750.00, in the payload and on the page
C14_Witness ==
    /\ dom # Null /\ PAYLOAD_CONTA # Null
    /\ {PAYLOAD_CONTA.transactions[i].amount : i \in 1..Len(PAYLOAD_CONTA.transactions)}
         = {100000, -20000, -5000}
    /\ Len(PAYLOAD_CONTA.transactions) = 3
    /\ PAYLOAD_CONTA.by_month =
         <<[month |-> <<2025, 1>>, entradas |-> 100000, saidas |-> 25000, saldo |-> 75000]>>
    /\ dom.conta.by_month = PAYLOAD_CONTA.by_month

----------------------------------------------------------------------------
(* Rows that cannot be read.                                               *)

\* The card rows with a date and an amount that is not a number
MalformedAmountRows(csvs) ==
    {i \in 1..Len(csvs) : csvs[i].date # NoDate /\ ~csvs[i].amount.ok}

\* The account rows of 2025 with an amount that is not a number
MalformedValorRows(nu) ==
    {i \in 1..Len(nu) : parse_date(nu[i].Data).y = 2025 /\ ~nu[i].Valor.ok
                        /\ ~HasMarker(nu[i].Descricao)}

\* C15: a row whose amount cannot be parsed is coerced to 0.0 and retained in
\* both pipelines: when every row of the statement is dated with a date, a
\* dated, non-blacklisted row with a malformed amount is in the record list
\* the run writes, with amount 0, and the run does not fail.
C15_MalformedAmountIsKept ==
    /\ (/\ arg.fn = "consolidate_csv"
        /\ \A i \in 1..Len(Nubank_csvs) : ValidDate(Nubank_csvs[i].date)) =>
          /\ ret = Return(0)
          /\ \A i \in MalformedAmountRows(Nubank_csvs) :
                /\ OUT_CSV.written
                /\ \E k \in 1..Len(OUT_CSV.rows) :
                      /\ OUT_CSV.rows[k].date = Nubank_csvs[i].date
                      /\ OUT_CSV.rows[k].title = strip(Nubank_csvs[i].title)
                      /\ OUT_CSV.rows[k].amount = FloatStr(0)
    /\ arg.fn = "consolidate_conta_corrente" =>
          /\ ret = Return(0)
          /\ \A i \in MalformedValorRows(NU_csvs) :
                /\ OUT_JSON.written
                /\ \E k \in 1..Len(OUT_JSON.transactions) :
                      /\ OUT_JSON.transactions[k].date = parse_date(NU_csvs[i].Data)
                      /\ OUT_JSON.transactions[k].description = strip(NU_csvs[i].Descricao)
                      /\ OUT_JSON.transactions[k].amount = 0

\* consolidate_csv.py has run on Mercado 50.00 and bazar with an amount that
\* is not a number, and the file it wrote holds the row of Mercado alone
C15_Witness ==
    /\ arg.fn = "consolidate_csv"
    /\ ret = Return(0)
    /\ Len(Nubank_csvs) = 2
    /\ MalformedAmountRows(Nubank_csvs) # {}
    /\ OUT_CSV.written
    /\ OUT_CSV.rows = <<[date |-> Date(2025, 3, 10), title |-> <<"Mercado">>,
                         amount |-> FloatStr(50000)]>>

\* The card rows whose date is a date
WellDatedRows(csvs) ==
    Pick(csvs, {i \in 1..Len(csvs) : csvs[i].date # NoDate /\ ValidDate(csvs[i].date)})

\* The account rows whose Data is three numbers
ReadableDataRows(nu) ==
    Pick(nu, {i \in 1..Len(nu) : Len(nu[i].Data) = 3 /\ \A p \in 1..3 : nu[i].Data[p].num})

\* C16: a row whose date is missing or malformed is dropped silently and
\* every other row is still processed: each run ends without failing and
\* writes what it writes for the statement without those rows.
C16_BadDateIsDropped ==
    /\ arg.fn = "consolidate_csv" =>
          /\ ret = Return(0)
          /\ OUT_CSV = consolidate_csv_main(WellDatedRows(Nubank_csvs))
    /\ arg.fn = "consolidate_conta_corrente" =>
          /\ ret = Return(0)
          /\ OUT_JSON = consolidate_conta_main(ReadableDataRows(NU_csvs))

\* consolidate_csv.py has run on Mercado 50.00 of 2025-03-10 and uber 20.04
\* dated 2025-02-30: it ended with ValueError and wrote no file
C16_Witness ==
    /\ arg.fn = "consolidate_csv"
    /\ ret = Raised("ValueError")
    /\ OUT_CSV = NotWritten
    /\ \E i \in 1..Len(Nubank_csvs) :
          Nubank_csvs[i] = CardRow(Date(2025, 3, 10), <<"Mercado">>, Cell(50000))
    /\ \E i \in 1..Len(Nubank_csvs) :
          Nubank_csvs[i] = CardRow(Date(2025, 2, 30), <<"uber">>, Cell(20040))

----------------------------------------------------------------------------
(* Override edits.                                                         *)

\* The step leaves what localStorage holds under key as it is
SameStored(key) ==
    /\ (key \in DOMAIN localStorage') = (key \in DOMAIN localStorage)
    /\ key \in DOMAIN localStorage => localStorage'[key] = localStorage[key]

\* The step leaves the effective category and the inclusion of every
\* record of rows under the map ov and the filter as they are
SameEffective(rows, ov, filter, rowsAfter, ovAfter, filterAfter) ==
    /\ rowsAfter = rows
    /\ \A i \in 0..(Len(rows) - 1) :
          EffectiveCategory(rowsAfter, ovAfter, i) = EffectiveCategory(rows, ov, i)
    /\ Included(rowsAfter, ovAfter, filterAfter) = Included(rows, ov, filter)

\* C17: the card and account override maps are independent: an edit of the
\* override of record i of one domain leaves the other domain's map, what
\* localStorage holds under its key, and the effective category and
\* inclusion of each of its records unchanged.
C17_OverrideMapsAreIndependent ==
    [][/\ (edits' = edits + 1 /\ overrides' # overrides) =>
            /\ overridesConta' = overridesConta
            /\ SameStored(OVERRIDES_CONTA_KEY)
            /\ dom'.conta = dom.conta
            /\ PAYLOAD_CONTA # Null =>
                  /\ PAYLOAD_CONTA' # Null
                  /\ SameEffective(PAYLOAD_CONTA.transactions, overridesConta,
                                   filterCategoriesConta, PAYLOAD_CONTA'.transactions,
                                   overridesConta', filterCategoriesConta')
       /\ (edits' = edits + 1 /\ overridesConta' # overridesConta) =>
            /\ overrides' = overrides
            /\ SameStored(OVERRIDES_KEY)
            /\ dom'.cartao = dom.cartao
            /\ PAYLOAD' # Null
            /\ SameEffective(PAYLOAD.expenses, overrides, filterCategoriesCartao,
                             PAYLOAD'.expenses, overrides', filterCategoriesCartao')
      ]_vars

\* Record 0 of the card and record 0 of the account each have an override,
\* the two differ and each is stored under its own key
C17_Witness ==
    /\ dom # Null /\ PAYLOAD_CONTA # Null
    /\ 0 \in DOMAIN overrides
    /\ 0 \in DOMAIN overridesConta
    /\ overrides[0] # overridesConta[0]
    /\ localStorage[OVERRIDES_KEY] = JSON_stringify(overrides)
    /\ localStorage[OVERRIDES_CONTA_KEY] = JSON_stringify(overridesConta)

\* The override map ov without the count field of entry i; an entry with no
\* field left is no entry
WithoutCount(ov, i) ==
    [j \in {k \in DOMAIN ov : k # i \/ DOMAIN ov[k] # {"count"}} |->
        IF j = i THEN [f \in DOMAIN ov[j] \ {"count"} |-> ov[j][f]] ELSE ov[j]]

Fields(ov, i) == IF i \in DOMAIN ov THEN DOMAIN ov[i] ELSE {}

\* Entry i of after is entry i of before with field f set: the other field
\* and the other entries are as they were, and setting f to the same value
\* again gives the same map
UpsertOf(before, after, i, f) ==
    /\ DOMAIN after = DOMAIN before \cup {i}
    /\ \A j \in DOMAIN before \ {i} : after[j] = before[j]
    /\ DOMAIN after[i] = Fields(before, i) \cup {f}
    /\ \A g \in Fields(before, i) \ {f} : after[i][g] = before[i][g]
    /\ Upsert(after, i, f, after[i][f]) = after

\* C19: each override edit is an idempotent upsert with a narrow frame: it
\* sets the category, or the count flag, of entry i of its domain's map and
\* leaves the other field of entry i, every other entry and the base
\* records of PAYLOAD.expenses and PAYLOAD_CONTA.transactions unchanged, and
\* the same edit applied again gives the same map.
C19_EditIsNarrowUpsert ==
    [][/\ (edits' = edits + 1 /\ overrides' # overrides) =>
            /\ \E i \in 0..(Len(PAYLOAD.expenses) - 1), f \in {"category", "count"} :
                  UpsertOf(overrides, overrides', i, f)
            /\ localStorage'[OVERRIDES_KEY] = JSON_stringify(overrides')
       /\ (edits' = edits + 1 /\ overridesConta' # overridesConta) =>
            /\ \E i \in 0..(Len(PAYLOAD_CONTA.transactions) - 1), f \in {"category", "count"} :
                  UpsertOf(overridesConta, overridesConta', i, f)
            /\ localStorage'[OVERRIDES_CONTA_KEY] = JSON_stringify(overridesConta')
       /\ edits' = edits + 1 => (PAYLOAD' = PAYLOAD /\ PAYLOAD_CONTA' = PAYLOAD_CONTA)
      ]_vars

\* Record 0 of the card was given the category Outros and then hidden: its
\* entry holds both fields
C19_Witness ==
    /\ PAYLOAD # Null /\ dom # Null
    /\ 0 \in DOMAIN overrides
    /\ overrides[0] = [category |-> "Outros", count |-> FALSE]
    /\ PAYLOAD.expenses[1].category = "Mercado"

\* C20: after every override edit all derived views show values computed
\* from the current override maps: the card tab, the account tab and the
\* consolidated DRE/DFC view (receitas, despesas, resultado, monthly flow,
\* expenses by category), which is computed from the effective account
\* transactions, never show values of an earlier override map.
C20_ViewsFollowOverrides ==
    (dom # Null /\ PAYLOAD_CONTA # Null) =>
        /\ dom.cartao = renderAll(PAYLOAD, overrides, filterCategoriesCartao)
        /\ dom.conta = renderContaTab(PAYLOAD_CONTA, overridesConta, filterCategoriesConta)
        /\ dom.consolidado = renderConsolidadoTab(PAYLOAD_CONTA, overridesConta)
        /\ dom.consolidado.despesas =
              -Amounts(PAYLOAD_CONTA.transactions,
                       {i \in Included(PAYLOAD_CONTA.transactions, overridesConta, {}) :
                           PAYLOAD_CONTA.transactions[i + 1].amount < 0})

\* The only transaction, an outflow of 16.00, has been set to count = false:
\* the account tab shows saidas 0.00 and the consolidated view despesas 16.00
C20_Witness ==
    /\ dom # Null /\ PAYLOAD_CONTA # Null
    /\ Len(PAYLOAD_CONTA.transactions) = 1
    /\ PAYLOAD_CONTA.transactions[1].amount = -1600
    /\ overridesConta = [j \in {0} |-> [count |-> FALSE]]
    /\ dom.conta.saidas_total = 0
    /\ dom.consolidado.despesas = 1600

----------------------------------------------------------------------------
(* Classification of entities at a total of zero.                          *)

\* No entry of the list has an abc or a cum_pct field
NoAbcFields(list) ==
    \A k \in 1..Len(list) : DOMAIN list[k] \cap {"abc", "cum_pct"} = {}

\* C21: when the grand total is <= 0 the ABC classification is skipped and
\* the entities carry no abc and no cum_pct field, in by_title of the
\* payload (build_abc), in by_entity of the account payload, in by_title of
\* recalc (aggregateByTitle) and in by_entity of renderContaTab.
C21_NoAbcAtZeroTotal ==
    /\ (OUT_HTML.written /\ OUT_HTML.PAYLOAD.total <= 0) =>
          NoAbcFields(OUT_HTML.PAYLOAD.by_title)
    /\ (OUT_HTML.written /\ OUT_HTML.PAYLOAD_CONTA # Null
        /\ OUT_HTML.PAYLOAD_CONTA.saidas_total <= 0) =>
          NoAbcFields(OUT_HTML.PAYLOAD_CONTA.by_entity)
    /\ (dom # Null /\ dom.cartao.total <= 0) => NoAbcFields(dom.cartao.by_title)
    /\ (dom # Null /\ PAYLOAD_CONTA # Null /\ dom.conta.saidas_total <= 0) =>
          NoAbcFields(dom.conta.by_entity)

\* The statement holds one purchase of 0.004: the payload lists its title
\* with total 0.00 and no class, the page lists it with cum_pct 0.0 and
\* class A
C21_Witness ==
    /\ dom # Null
    /\ PAYLOAD.total = 0
    /\ PAYLOAD.by_title = <<[title |-> <<"loja">>, total |-> 0, count |-> 1]>>
    /\ dom.cartao.by_title = <<[title |-> <<"loja">>, total |-> 0, cum_pct |-> 0, abc |-> "A"]>>

----------------------------------------------------------------------------
(* Order of the record lists.                                              *)

\* (date, text, amount) of a is lexicographically <= that of b
TupleLeq(a, b, text, amountOf(_)) ==
    \/ DateLess(a.date, b.date)
    \/ a.date = b.date /\ StrLess(a[text], b[text])
    \/ a.date = b.date /\ a[text] = b[text] /\ amountOf(a) <= amountOf(b)

AmountOfRecord(r) == r.amount

AmountOfCsvRow(r) == r.amount.mills

\* For any two positions i < j the tuple of i is <= the tuple of j
SortedByTuple(records, text, amountOf(_)) ==
    \A i \in 1..Len(records), j \in 1..Len(records) :
        i < j => TupleLeq(records[i], records[j], text, amountOf)

\* C22: the record list of each domain is sorted ascending by (date, title,
\* amount), the title of an account record being its description: the
\* output of consolidate_csv, the records of load_2025_expenses and the
\* records of load_all_conta_corrente.
C22_RecordListsAreSorted ==
    /\ OUT_CSV.written => SortedByTuple(OUT_CSV.rows, "title", AmountOfCsvRow)
    /\ OUT_HTML.written => SortedByTuple(OUT_HTML.PAYLOAD.expenses, "title", AmountOfRecord)
    /\ OUT_JSON.written => SortedByTuple(OUT_JSON.transactions, "description", AmountOfRecord)

\* Two transactions of 2025-01-20: "Transferência enviada pelo Pix - Edison"
\* of -200.00 is listed before "TELEFONICA" of 1000.00
C22_Witness ==
    /\ OUT_JSON.written
    /\ Len(OUT_JSON.transactions) = 3
    /\ OUT_JSON.transactions[2].date = Date(2025, 1, 20)
    /\ OUT_JSON.transactions[2].amount = -20000
    /\ OUT_JSON.transactions[2].description =
          <<"Transferência enviada pelo Pix", " ", "-", " ", "Edison">>
    /\ OUT_JSON.transactions[3].date = Date(2025, 1, 20)
    /\ OUT_JSON.transactions[3].amount = 100000
    /\ OUT_JSON.transactions[3].description = <<"TELEFONICA">>

----------------------------------------------------------------------------
(* Order of the rules of categorize.                                       *)

\* The rules in the order they are stated: the keywords of each and the
\* categories it returns
CategorizeRules ==
    <<[keywords |-> {"supermerc", "mercado", "hortifruti", "mercearia", "atacad",
                     "fruteira", "carrefour"},
       categories |-> {"Mercado"}],
      [keywords |-> {"posto", "gasbom", "gasolina", "abastece"},
       categories |-> {"Combustível"}],
      [keywords |-> {"uber", "via sul", "concessionaria", "concessionária"},
       categories |-> {"Transporte"}],
      [keywords |-> {"pedágio", "estacionamento"}, categories |-> {"Pedágio"}],
      [keywords |-> {"academia", "prime fit"}, categories |-> {"Academia"}],
      [keywords |-> {"farmacia", "farmácia", "panvel", "sao joao", "são joão"},
       categories |-> {"Saúde"}],
      [keywords |-> {"ricky", "xis", "lanches", "restaurante", "pizzaria", "buffon",
                     "padaria", "lanchonete", "hamburguer", "minhocaburger", "rancho",
                     "a lenha", "cia do sabor", "cremolatto", "delivery"},
       categories |-> {"Restaurante", "Lanche padaria e outros alimentos"}],
      [keywords |-> {"google", "youtube", "netflix", "assinatura", "juliocesar",
                     "gemeascel", "conta vivo", "contavivo"},
       categories |-> {"Assinaturas"}],
      [keywords |-> {"barbeiro", "xbeleza", "beleza", "barbearia"},
       categories |-> {"Vestuário e higiene pessoal"}],
      [keywords |-> {"rede farroupilha", "estacionamentos"}, categories |-> {"Pedágio"}],
      [keywords |-> {"bazar", "havan", "lojas americanas", "leroy", "amazon"},
       categories |-> {"Loja e Bazar"}]>>

\* The rules with a keyword in the lowercased title
MatchingRules(title) ==
    {k \in 1..Len(CategorizeRules) : any(CategorizeRules[k].keywords, lower(title))}

\* C23: categorize returns the category of the first rule, in the order
\* Mercado, Combustível, Transporte, Pedágio, Academia, Saúde,
\* Restaurante/Lanche, Assinaturas, Vestuário e higiene pessoal, Pedágio,
\* Loja e Bazar, that has a keyword in the title; a later rule that matches
\* too does not change it.
C23_FirstMatchingRuleWins ==
    (arg.fn = "categorize" /\ ret.returned) =>
        \A k \in MatchingRules(arg.title) :
            (\A j \in MatchingRules(arg.title) : k <= j) =>
                ret.value \in CategorizeRules[k].categories

\* A title with "mercado" and "restaurante" is Mercado
C23_Witness ==
    /\ arg.fn = "categorize" /\ ret.returned
    /\ arg.title = <<"restaurante", "Mercado">>
    /\ Cardinality(MatchingRules(arg.title)) = 2
    /\ ret.value = "Mercado"

----------------------------------------------------------------------------
(* Names of the records.                                                   *)

\* C24: every record that enters a record list has a non-empty title or
\* entity after trimming: the rows consolidate_csv writes, the records of
\* load_2025_expenses and the entity extract_entity gives each record of
\* load_all_conta_corrente.
C24_NamesAreNeverEmpty ==
    /\ OUT_CSV.written =>
          \A k \in 1..Len(OUT_CSV.rows) : strip(OUT_CSV.rows[k].title) # <<>>
    /\ OUT_HTML.written =>
          \A k \in 1..Len(OUT_HTML.PAYLOAD.expenses) :
              strip(OUT_HTML.PAYLOAD.expenses[k].title) # <<>>
    /\ OUT_JSON.written =>
          \A k \in 1..Len(OUT_JSON.transactions) :
              strip(OUT_JSON.transactions[k].entity) # <<>>

\* "Transferência Recebida - - JOAO" is a record with the empty entity
C24_Witness ==
    /\ OUT_JSON.written
    /\ Len(OUT_JSON.transactions) = 1
    /\ OUT_JSON.transactions[1].description =
          <<"Transferência Recebida", " ", "-", " ", "-", " ", "JOAO">>
    /\ OUT_JSON.transactions[1].entity = <<>>

----------------------------------------------------------------------------
(* C25: build_recommendations                                              *)

\* The indices of the entries of over_budget with the largest over_amount
WorstIndices(over_budget) ==
    {i \in 1..Len(over_budget) :
        \A j \in 1..Len(over_budget) :
            over_budget[j].over_amount <= over_budget[i].over_amount}

\* The smallest element of a non-empty set of indices
FirstIndex(indices) == CHOOSE i \in indices : \A j \in indices : i <= j

\* C25: the recommendations are a function of over_budget and by_category.
\* When over_budget is non-empty the overage sentence names the entry with
\* the maximum over_amount, the first in the list among the entries tied at
\* the maximum; when it is empty there is no overage sentence; the categories
\* named are the first three of by_category, fewer when it has fewer, in
\* that order.
C25_RecommendationsNameWorstAndTop3 ==
    OUT_HTML.written =>
        LET P == OUT_HTML.PAYLOAD
            over == P.over_budget_months
            cats == P.by_category
            rec == P.recommendations
        IN  /\ (over = <<>>) => rec.overage = <<>>
            /\ (over # <<>>) =>
                  /\ Len(rec.overage) = 1
                  /\ rec.overage[1].month = over[FirstIndex(WorstIndices(over))].month
                  /\ rec.overage[1].over_amount =
                        over[FirstIndex(WorstIndices(over))].over_amount
            /\ Len(rec.names) = (IF Len(cats) < 3 THEN Len(cats) ELSE 3)
            /\ \A k \in 1..Len(rec.names) : rec.names[k] = cats[k].category

\* March and May are both 375.00 over the budget, April is on it: March is
\* named; four categories were bought from and the first three are named
C25_Witness ==
    /\ OUT_HTML.written
    /\ Len(OUT_HTML.PAYLOAD.over_budget_months) = 2
    /\ OUT_HTML.PAYLOAD.over_budget_months[1].over_amount = 37500
    /\ OUT_HTML.PAYLOAD.over_budget_months[2].over_amount = 37500
    /\ OUT_HTML.PAYLOAD.over_budget_months[2].month = <<2025, 5>>
    /\ OUT_HTML.PAYLOAD.recommendations.overage[1].month = <<2025, 3>>
    /\ Len(OUT_HTML.PAYLOAD.by_category) = 4
    /\ Len(OUT_HTML.PAYLOAD.recommendations.names) = 3

----------------------------------------------------------------------------
(* C26: conservation of the recomputed aggregates                          *)

\* The sum of the totals of a list of aggregates
RECURSIVE SumOfTotals(_)
SumOfTotals(list) ==
    IF list = <<>> THEN 0 ELSE Head(list).total + SumOfTotals(Tail(list))

\* The category the page shows for the record of index idx
ShownCategory(idx) ==
    IF idx \in DOMAIN overrides /\ "category" \in DOMAIN overrides[idx]
    THEN overrides[idx].category
    ELSE IF PAYLOAD.expenses[idx + 1].category = "" THEN "Outros"
    ELSE PAYLOAD.expenses[idx + 1].category

\* The indices of the records that are included and pass the filter
IncludedRecords ==
    {idx \in 0..(Len(PAYLOAD.expenses) - 1) :
        /\ ~(idx \in DOMAIN overrides /\ "count" \in DOMAIN overrides[idx]
              /\ ~overrides[idx].count)
        /\ filterCategoriesCartao # {} => ShownCategory(idx) \in filterCategoriesCartao}

\* The sum of the amounts of the records of the indices in I
RECURSIVE SumOfRecords(_)
SumOfRecords(I) ==
    IF I = {} THEN 0
    ELSE LET idx == CHOOSE x \in I : TRUE
         IN  PAYLOAD.expenses[idx + 1].amount + SumOfRecords(I \ {idx})

\* C26: after any sequence of category edits, count edits and filter
\* changes, the by_month totals, the by_category totals and the by_title
\* totals of recalc each sum to total, which is the sum of the records that
\* are included and pass the filter; count is the number of these records;
\* each of them is in exactly one month, one category and one title.
C26_RecalcConservesTotal ==
    dom # Null =>
        /\ dom.cartao.total = SumOfRecords(IncludedRecords)
        /\ SumOfTotals(dom.cartao.by_month) = dom.cartao.total
        /\ SumOfTotals(dom.cartao.by_category) = dom.cartao.total
        /\ SumOfTotals(dom.cartao.by_title) = dom.cartao.total
        /\ dom.cartao.count = Cardinality(IncludedRecords)
        /\ \A idx \in IncludedRecords :
              /\ Cardinality({k \in 1..Len(dom.cartao.by_month) :
                    dom.cartao.by_month[k].month =
                        Month(PAYLOAD.expenses[idx + 1].date)}) = 1
              /\ Cardinality({k \in 1..Len(dom.cartao.by_category) :
                    dom.cartao.by_category[k].category = ShownCategory(idx)}) = 1
              /\ Cardinality({k \in 1..Len(dom.cartao.by_title) :
                    dom.cartao.by_title[k].title = PAYLOAD.expenses[idx + 1].title}) = 1

\* Two purchases, of 50.00 at the market and of 20.04 of transport; the
\* second was moved to the market's category, which now totals 70.04
C26_Witness ==
    /\ dom # Null
    /\ Len(PAYLOAD.expenses) = 2
    /\ 1 \in DOMAIN overrides
    /\ "category" \in DOMAIN overrides[1]
    /\ dom.cartao.count = 2
    /\ dom.cartao.total = 7004
    /\ dom.cartao.by_category = <<[category |-> "Mercado", total |-> 7004]>>
    /\ Len(dom.cartao.by_month) = 2

----------------------------------------------------------------------------
(* C27: type and category of a checking-account record                     *)

\* C27: in every record load_all_conta_corrente builds, a record of type
\* "entrada" has a category of the income subset and a record of type "saida"
\* has a category of the expense subset, whatever the amount is, 0 included.
C27_TypeAndCategoryAgree ==
    OUT_JSON.written =>
        \A k \in 1..Len(OUT_JSON.transactions) :
            /\ OUT_JSON.transactions[k].type = "entrada" =>
                  OUT_JSON.transactions[k].category \in MASTER_CATEGORIES_ENTRADA
            /\ OUT_JSON.transactions[k].type = "saida" =>
                  OUT_JSON.transactions[k].category \in MASTER_CATEGORIES_DESPESA

\* The row of TELEFONICA whose amount is not a number: amount 0, type
\* "entrada", category "Comunicação"
C27_Witness ==
    /\ OUT_JSON.written
    /\ Len(OUT_JSON.transactions) = 1
    /\ OUT_JSON.transactions[1].description = <<"TELEFONICA">>
    /\ OUT_JSON.transactions[1].amount = 0
    /\ OUT_JSON.transactions[1].type = "entrada"
    /\ OUT_JSON.transactions[1].category = "Comunicação"

----------------------------------------------------------------------------
(* C28: the index of a record across rebuilds                              *)

\* The records of the list before are at the same indices of the list after
KeepIndices(before, after, text) ==
    \A i \in 1..Len(before) :
        /\ i <= Len(after)
        /\ after[i].date = before[i].date
        /\ after[i][text] = before[i][text]
        /\ after[i].amount = before[i].amount

\* The overrides ov are on the same transactions of the list after as of the
\* list before
SameOverridden(ov, before, after, text) ==
    \A idx \in DOMAIN ov :
        idx < Len(before) =>
            /\ idx < Len(after)
            /\ after[idx + 1].date = before[idx + 1].date
            /\ after[idx + 1][text] = before[idx + 1][text]
            /\ after[idx + 1].amount = before[idx + 1].amount

\* C28: statements only arrive, so each run of the pipeline reads the rows
\* of the run before and more: every record of the payload keeps its index
\* in the payload that replaces it, and when the page is loaded again each
\* stored override is on the transaction (date, title, amount) it was on.
C28_IndexIsStableAcrossRebuilds ==
    [][/\ (OUT_HTML.written /\ OUT_HTML'.written) =>
             KeepIndices(OUT_HTML.PAYLOAD.expenses, OUT_HTML'.PAYLOAD.expenses, "title")
       /\ (OUT_JSON.written /\ OUT_JSON'.written) =>
             KeepIndices(OUT_JSON.transactions, OUT_JSON'.transactions, "description")
       /\ (PAYLOAD # Null /\ PAYLOAD' # Null) =>
             SameOverridden(overrides', PAYLOAD.expenses, PAYLOAD'.expenses, "title")
       /\ (PAYLOAD_CONTA # Null /\ PAYLOAD_CONTA' # Null) =>
             SameOverridden(overridesConta', PAYLOAD_CONTA.transactions,
                            PAYLOAD_CONTA'.transactions, "description")]_vars

\* The purchase of March was excluded under index 0; the statement with the
\* purchase of February arrived and the page was built and loaded again:
\* index 0 is the purchase of February, which is the one left out
C28_Witness ==
    /\ PAYLOAD # Null
    /\ Len(PAYLOAD.expenses) = 2
    /\ PAYLOAD.expenses[1].title = <<"bazar">>
    /\ PAYLOAD.expenses[2].title = <<"Mercado">>
    /\ Nubank_csvs[1].title = <<"Mercado">>
    /\ DOMAIN overrides = {0}
    /\ overrides[0] = [count |-> FALSE]
    /\ dom.cartao.total = 5000

----------------------------------------------------------------------------
(* C29: the view of the calendar year                                      *)

\* The rows of the statement that are dated in 2025, are purchases and are
\* not of a blacklisted title
RowsOf2025(csvs) ==
    {i \in 1..Len(csvs) :
        /\ csvs[i].date.y = 2025
        /\ csvs[i].amount.ok
        /\ csvs[i].amount.mills > 0
        /\ ~is_blacklisted(csvs[i].title)}

\* The positions of the records of the row in the record list
RecordsOfRow(row, expenses) ==
    {k \in 1..Len(expenses) :
        /\ expenses[k].date = row.date
        /\ expenses[k].title = strip(row.title)
        /\ expenses[k].amount * 10 = row.amount.mills}

\* C29: every row of the statement dated in 2025, with amount > 0 and a
\* title that is not blacklisted, is once in the record list of
\* load_2025_expenses, whatever the latest date of the statement is.
C29_YearViewIsComplete ==
    OUT_HTML.written =>
        \A i \in RowsOf2025(Nubank_csvs) :
            Cardinality(RecordsOfRow(Nubank_csvs[i], OUT_HTML.PAYLOAD.expenses)) = 1

\* The statement holds purchases of March 2025, August 2025 and May 2026:
\* the record list holds the purchase of August alone
C29_Witness ==
    /\ OUT_HTML.written
    /\ Len(Nubank_csvs) = 3
    /\ Nubank_csvs[1].date = Date(2025, 3, 10)
    /\ Nubank_csvs[2].date = Date(2025, 8, 1)
    /\ Nubank_csvs[3].date = Date(2026, 5, 20)
    /\ Len(OUT_HTML.PAYLOAD.expenses) = 1
    /\ OUT_HTML.PAYLOAD.expenses[1].date = Date(2025, 8, 1)
    /\ OUT_HTML.PAYLOAD.expenses[1].title = <<"uber">>

----------------------------------------------------------------------------
(* C30: the recommendations and the aggregates on the page                 *)

\* The data of the sentences build_recommendations would give for the
\* over-budget months and the categories shown
SentencesFor(over, cats) ==
    [overage |-> IF over = <<>> THEN <<>>
                 ELSE <<[n |-> Len(over),
                         month |-> over[FirstIndex(WorstIndices(over))].month,
                         over_amount |-> over[FirstIndex(WorstIndices(over))].over_amount]>>,
     names |-> [k \in 1..(IF Len(cats) < 3 THEN Len(cats) ELSE 3) |-> cats[k].category]]

\* C30: after any sequence of override edits and filter changes, the number
\* of over-budget months, the worst month and the top three categories named
\* in the recommendations on the page are the ones of the over_budget_months
\* and by_category recalc returned for the page.
C30_RecommendationsFollowAggregates ==
    dom # Null =>
        dom.recommendations =
            SentencesFor(dom.cartao.over_budget_months, dom.cartao.by_category)

\* The purchase of transport was moved to the market's category: the page
\* shows the one category Mercado and the recommendations name Mercado and
\* Transporte
C30_Witness ==
    /\ dom # Null
    /\ dom.cartao.by_category = <<[category |-> "Mercado", total |-> 7004]>>
    /\ dom.recommendations.names = <<"Mercado", "Transporte">>
=============================================================================
